---- MODULE Spec2Model ----
(***************************************************************************)
(* Subgraph isomorphism search of the graphs repository (packages graphs   *)
(* and iso): the validator, the candidate finder, the equation solver, the *)
(* recursive matcher, the search driver and the subgraph constructor.      *)
(*                                                                         *)
(* Node names are small integers.  A graph is a record [n, E]: its nodes   *)
(* are 1..n in their stable order (graph.Nodes.Nodes) and E is its edge    *)
(* set; the adjacency lists Succs and Preds are derived from E, so the two *)
(* views of an edge always agree, as in a parsed dot.Graph.  A Go map is a *)
(* TLA+ function whose DOMAIN is its key set; the iteration order of a Go  *)
(* map is unspecified, so every operation that ranges over a map yields    *)
(* the set of outcomes that some iteration order produces.                 *)
(***************************************************************************)
EXTENDS Integers, Sequences, FiniteSets, TLC

\* ------------------------------------------------------------------ bounds

\* Largest number of edges of a host graph and of a subgraph.
MaxHostEdges == 3
MaxSubEdges == 3

\* Largest number of edges of either graph where the validator is given
\* arbitrary maps.
MaxValidEdges == 2

\* Largest number of nodes of a graph handed to NewSubGraph.
MaxLabelled == 4

\* Largest number of edges of either graph where the equation is driven call
\* by call, and the largest number of SetPair calls with arbitrary names.
MaxEqEdges == 2
MaxFreeCalls == 1

\* Largest number of writes made on an equation after Dup.
MaxWrites == 1

\* The largest number of edges of a host graph handed to the two matchers
\* side by side.
MaxMatchEdges == 4

\* The largest number of edges of a subgraph whose edges may be held twice,
\* and the largest number of edges a graph holds twice.
MaxMultiEdges == 1
MaxDoubled == 1

\* Largest number of pairs the candidate walk may record; above the number of
\* pairs there are.
MaxExpansions == 10

\* The calls of the first copy of findCandidates the model follows in one
\* walk.
MaxCalls == 20

\* The number of values Solve receives before it returns.
SolveReads == 100

\* The node names in use; a graph with n nodes has the nodes 1..n, and a name
\* above n is a name the graph does not hold.
Names == {1, 2, 3}

\* ------------------------------------------------------------------ graphs

Nodes(G) == 1 .. G.n

RECURSIVE SortedSeq(_)
\* The elements of a finite set of integers as an increasing sequence.
SortedSeq(S) ==
    IF S = {} THEN << >>
    ELSE LET x == CHOOSE y \in S : \A z \in S : y <= z
         IN  << x >> \o SortedSeq(S \ {x})

RECURSIVE WithCopies(_, _)
\* The list of names ns with every name of the set twice written twice: an
\* adjacency list with repeated entries.
WithCopies(ns, twice) ==
    IF ns = << >> THEN << >>
    ELSE (IF Head(ns) \in twice THEN << Head(ns), Head(ns) >> ELSE << Head(ns) >>)
         \o WithCopies(Tail(ns), twice)

\* node.Succs and node.Preds: the adjacency lists of node u of G.  A graph
\* with a field par holds the edges of par twice, so both lists of such an
\* edge repeat the other end.
Succs(G, u) ==
    IF "par" \in DOMAIN G
    THEN WithCopies(SortedSeq({v \in Nodes(G) : << u, v >> \in G.E}),
                    {v \in Nodes(G) : << u, v >> \in G.par})
    ELSE SortedSeq({v \in Nodes(G) : << u, v >> \in G.E})
Preds(G, v) ==
    IF "par" \in DOMAIN G
    THEN WithCopies(SortedSeq({u \in Nodes(G) : << u, v >> \in G.E}),
                    {u \in Nodes(G) : << u, v >> \in G.par})
    ELSE SortedSeq({u \in Nodes(G) : << u, v >> \in G.E})

Lookup_Always(G, name) == TRUE

\* graph.Nodes.Lookup[name]: whether the name resolves to a node.
Lookup(G, name) == name \in Nodes(G)

\* Every graph with nodes 1..n, n in Names, and at most k edges.
GraphsUpTo(k) ==
    UNION { { [n |-> n, E |-> E] :
                E \in { X \in SUBSET ((1 .. n) \X (1 .. n)) : Cardinality(X) <= k } } :
            n \in Names }

\* ------------------------------------------------------------------ maps

EmptyMap == << >>

Put_NoOverwrite(m, k, v) ==
    [x \in (DOMAIN m) \cup {k} |-> IF x \in DOMAIN m THEN m[x] ELSE v]

\* m[k] = v on a Go map.
Put(m, k, v) == [x \in (DOMAIN m) \cup {k} |-> IF x = k THEN v ELSE m[x]]

Delete_Keep(m, k) == m

\* delete(m, k) on a Go map.
Delete(m, k) == [x \in (DOMAIN m) \ {k} |-> m[x]]

\* ------------------------------------------------------------------ validator

hasDup_NoCheck(m) == FALSE

\* hasDup: whether two keys of m hold the same value.
hasDup(m) == \E a, b \in DOMAIN m : a # b /\ m[a] = m[b]

\* The loop over the predecessors (or successors) ss of a sub node: every one
\* of them is mapped by m onto some member of gs.  A key that m does not hold
\* reads as the empty name, which no node carries.
allFound(m, ss, gs) ==
    \A i \in 1 .. Len(ss) :
        \E j \in 1 .. Len(gs) : ss[i] \in DOMAIN m /\ gs[j] = m[ss[i]]

validPair_NoExitSkip(G, S, m, sname) ==
    LET gname == m[sname] IN
    /\ Lookup(S, sname)
    /\ Lookup(G, gname)
    /\ sname # S.entry =>
          /\ Len(Preds(S, sname)) = Len(Preds(G, gname))
          /\ allFound(m, Preds(S, sname), Preds(G, gname))
    /\ Len(Succs(S, sname)) = Len(Succs(G, gname))
    /\ allFound(m, Succs(S, sname), Succs(G, gname))

\* The body of IsValid's loop for one key of m.
validPair(G, S, m, sname) ==
    LET gname == m[sname] IN
    /\ Lookup(S, sname)
    /\ Lookup(G, gname)
    /\ sname # S.entry =>
          /\ Len(Preds(S, sname)) = Len(Preds(G, gname))
          /\ allFound(m, Preds(S, sname), Preds(G, gname))
    /\ sname # S.exit =>
          /\ Len(Succs(S, sname)) = Len(Succs(G, gname))
          /\ allFound(m, Succs(S, sname), Succs(G, gname))

\* Equation.IsValid on the known map m.
IsValid(G, S, m) ==
    /\ Cardinality(DOMAIN m) = S.n
    /\ ~hasDup(m)
    /\ \A sname \in DOMAIN m : validPair(G, S, m, sname)

\* valid, the test of the first Solve (package graphs), in the copy that has
\* neither the test for a host node taken twice nor the comparison of the
\* lengths: m has one entry per sub node and, key by key, every predecessor
\* (but the entry's) and every successor (but the exit's) of the sub node is
\* mapped onto one of the host node.  The later copy of valid is the body of
\* IsValid.
valid(G, S, m) ==
    /\ Cardinality(DOMAIN m) = S.n
    /\ \A sname \in DOMAIN m :
          LET gname == m[sname] IN
          /\ Lookup(S, sname)
          /\ Lookup(G, gname)
          /\ sname # S.entry => allFound(m, Preds(S, sname), Preds(G, gname))
          /\ sname # S.exit => allFound(m, Succs(S, sname), Succs(G, gname))

\* ------------------------------------------------------------------ candidates

isPotential_NoSkip(G, S, g, s) ==
    /\ Len(Preds(G, g)) = Len(Preds(S, s))
    /\ Len(Succs(G, g)) = Len(Succs(S, s))

isPotential_ExitCounted(G, S, g, s) ==
    /\ s # S.entry => Len(Preds(G, g)) = Len(Preds(S, s))
    /\ Len(Succs(G, g)) = Len(Succs(S, s))

isPotential_NoPreds(G, S, g, s) ==
    s # S.exit => Len(Succs(G, g)) = Len(Succs(S, s))

\* isPotential: whether host node g may stand for sub node s.
isPotential(G, S, g, s) ==
    /\ s # S.entry => Len(Preds(G, g)) = Len(Preds(S, s))
    /\ s # S.exit => Len(Succs(G, g)) = Len(Succs(S, s))

SuccPairs_ByIndex(G, S, g, s) ==
    LET ss == Succs(S, s)
        gs == Succs(G, g)
    IN  [k \in 1 .. (IF Len(ss) < Len(gs) THEN Len(ss) ELSE Len(gs)) |->
            << ss[k], gs[k] >>]

\* The pairs << ssucc, gsucc >> in the order of the nested loops over s.Succs
\* and g.Succs.
SuccPairs(G, S, g, s) ==
    LET ss == Succs(S, s)
        gs == Succs(G, g)
    IN  [k \in 1 .. (Len(ss) * Len(gs)) |->
            << ss[((k - 1) \div Len(gs)) + 1], gs[((k - 1) % Len(gs)) + 1] >>]

RECURSIVE findCandidates(_, _, _, _, _)
RECURSIVE findSuccCandidates(_, _, _, _, _)

findCandidates_FirstOnly(G, S, c, g, s) ==
    IF ~isPotential(G, S, g, s) THEN c
    ELSE IF s \in DOMAIN c THEN c
    ELSE findSuccCandidates(G, S, Put(c, s, {g}), SuccPairs(G, S, g, s), 1)

\* Equation.findCandidates, the last copy of the source, which returns on a
\* revisit of the subgraph entry: the candidate table c after the walk from
\* (g, s).  The first copy does not return there and need not return at all;
\* it is followed call by call, in findCandidatesCallOld.
findCandidates(G, S, c, g, s) ==
    IF ~isPotential(G, S, g, s) THEN c
    ELSE IF s \in DOMAIN c /\ g \in c[s] THEN c
    ELSE IF s \in DOMAIN c /\ s = S.entry THEN c
    ELSE LET old == IF s \in DOMAIN c THEN c[s] ELSE {}
         IN  findSuccCandidates(G, S, Put(c, s, old \cup {g}),
                                SuccPairs(G, S, g, s), 1)

findSuccCandidates_FirstPair(G, S, c, pairs, i) ==
    IF i > Len(pairs) THEN c
    ELSE findCandidates(G, S, c, pairs[i][2], pairs[i][1])

\* The nested loops at the end of findCandidates, from the i-th pair on.
findSuccCandidates(G, S, c, pairs, i) ==
    IF i > Len(pairs) THEN c
    ELSE findSuccCandidates(G, S,
             findCandidates(G, S, c, pairs[i][2], pairs[i][1]), pairs, i + 1)

\* One call of Equation.findCandidates, the last copy of the source, on the
\* pair << s, g >> at the head of w.stack: the call returns early, or records
\* the pair and is followed by the calls on the successor pairs, in the order
\* of the nested loops, before the calls that were already waiting.
findCandidatesCall(G, S, w) ==
    LET g == w.stack[1][2]
        s == w.stack[1][1]
        old == IF s \in DOMAIN w.c THEN w.c[s] ELSE {}
    IN  IF \/ ~isPotential(G, S, g, s)
           \/ s \in DOMAIN w.c /\ g \in w.c[s]
           \/ s \in DOMAIN w.c /\ s = S.entry
        THEN [w EXCEPT !.stack = Tail(@), !.calls = @ + 1]
        ELSE [stack |-> SuccPairs(G, S, g, s) \o Tail(w.stack),
              c |-> Put(w.c, s, old \cup {g}),
              n |-> w.n + 1,
              calls |-> w.calls + 1]

\* The entry of w.stack that stands for the return of the innermost call
\* still running.
Return == << 0, 0 >>

\* One call of Equation.findCandidates, the first copy of the source (locate
\* in package graphs is the same function), on the pair << s, g >> at the head
\* of w.stack, or the return of the innermost running call when its calls are
\* all made.  The call returns early on a pair that is not potential or is in
\* c; it records the pair unless s is the entry and c holds the entry; and in
\* both cases it goes on with the calls on the successor pairs.  w.running
\* holds the calls that have not returned, outermost first, each with the
\* table it was entered on.
findCandidatesCallOld(G, S, w) ==
    LET s == w.stack[1][1]
        g == w.stack[1][2]
    IN  IF w.stack[1] = Return
        THEN [w EXCEPT !.stack = Tail(@),
                       !.running = SubSeq(@, 1, Len(@) - 1)]
        ELSE IF \/ ~isPotential(G, S, g, s)
                \/ s \in DOMAIN w.c /\ g \in w.c[s]
        THEN [w EXCEPT !.stack = Tail(@), !.calls = @ + 1]
        ELSE LET c1 == IF s \notin DOMAIN w.c THEN Put(w.c, s, {g})
                       ELSE IF s # S.entry THEN Put(w.c, s, w.c[s] \cup {g})
                       ELSE w.c
             IN  [stack |-> SuccPairs(G, S, g, s) \o << Return >> \o Tail(w.stack),
                  c |-> c1,
                  n |-> IF c1 = w.c THEN w.n ELSE w.n + 1,
                  calls |-> w.calls + 1,
                  running |-> Append(w.running, << s, g, w.c >>)]

NoEquation == [c |-> EmptyMap, m |-> EmptyMap]

\* Candidates: [err, eq, expected, got]; err is "nil" when an equation is
\* returned.  expected and got are the two counts the error message prints
\* (0 where the message prints none).
Candidates(G, entry, S) ==
    IF ~Lookup(G, entry)
    THEN [err |-> "EntryMissing", eq |-> NoEquation, expected |-> 0, got |-> 0]
    ELSE IF ~Lookup(S, S.entry)
    THEN [err |-> "SubEntryMissing", eq |-> NoEquation, expected |-> 0, got |-> 0]
    ELSE IF ~isPotential(G, S, entry, S.entry)
    THEN [err |-> "EntryMismatch", eq |-> NoEquation,
          expected |-> Len(Succs(S, S.entry)), got |-> Len(Succs(G, entry))]
    ELSE LET c == findCandidates(G, S, EmptyMap, entry, S.entry)
         IN  IF Cardinality(DOMAIN c) # S.n
             THEN [err |-> "IncompleteCandidates", eq |-> NoEquation,
                   expected |-> S.n, got |-> Cardinality(DOMAIN c)]
             ELSE [err |-> "nil", eq |-> [c |-> c, m |-> EmptyMap],
                   expected |-> 0, got |-> 0]

\* ------------------------------------------------------------------ equation

getKey_None(m, val) == {}

\* getKey: the keys of m that hold the value val; the range over m returns the
\* first one it meets.
getKey(m, val) == { k \in DOMAIN m : m[k] = val }

\* pop: [panic, key]; the only key of a one-element candidate set, and a
\* panic ("invalid map length") on a set of any other size.
pop(candidates) ==
    IF Cardinality(candidates) # 1 THEN [panic |-> TRUE, key |-> 0]
    ELSE [panic |-> FALSE, key |-> CHOOSE g \in candidates : TRUE]

\* Equation.SetPair, the copy of the source that tests with getKey: the
\* outcomes [err, key, eq] of SetPair(sname, gname) on eq.  The source holds
\* two more copies of the function, SetPairOld and SetPairContains below.
\* When gname is already a value of m nothing changes and key is the sub node
\* getKey found, the name the error message puts first.  The loop that removes
\* gname ranges over the map c and returns at the first key left without
\* candidates, so on that error the keys visited before it (any set P of keys
\* that keep a candidate) have lost gname and the others have not.
SetPair(eq, sname, gname) ==
    IF getKey(eq.m, gname) # {}
    THEN { [err |-> "DuplicateTarget", key |-> k, eq |-> eq] :
             k \in getKey(eq.m, gname) }
    ELSE LET m1 == Put(eq.m, sname, gname)
             c1 == Delete(eq.c, sname)
             emptied == { k \in DOMAIN c1 : c1[k] \ {gname} = {} }
             strip(P) == [k \in DOMAIN c1 |->
                             IF k \in P THEN c1[k] \ {gname} ELSE c1[k]]
         IN  IF emptied = {}
             THEN { [err |-> "nil", key |-> sname,
                     eq |-> [c |-> strip(DOMAIN c1), m |-> m1]] }
             ELSE { [err |-> "NoCandidates", key |-> f,
                     eq |-> [c |-> strip(P \cup {f}), m |-> m1]] :
                      f \in emptied, P \in SUBSET ((DOMAIN c1) \ emptied) }

SolveUnique_AnyKey(eq) ==
    LET some == { s \in DOMAIN eq.c : Cardinality(eq.c[s]) >= 1 }
    IN  IF some = {}
        THEN { [ok |-> FALSE, err |-> "nil", eq |-> eq] }
        ELSE UNION { IF pop(eq.c[s]).panic
                     THEN { [ok |-> FALSE, err |-> "panic", eq |-> eq] }
                     ELSE { [ok |-> r.err = "nil", err |-> r.err, eq |-> r.eq] :
                              r \in SetPair(eq, s, pop(eq.c[s]).key) } : s \in some }

\* Equation.SolveUnique: the outcomes [ok, err, eq]; any key with exactly one
\* candidate may be the one the range over c meets first.  err is "panic"
\* where pop panics, which the test of the length keeps from happening.
SolveUnique(eq) ==
    LET uniq == { s \in DOMAIN eq.c : Cardinality(eq.c[s]) = 1 }
    IN  IF uniq = {}
        THEN { [ok |-> FALSE, err |-> "nil", eq |-> eq] }
        ELSE UNION { IF pop(eq.c[s]).panic
                     THEN { [ok |-> FALSE, err |-> "panic", eq |-> eq] }
                     ELSE { [ok |-> r.err = "nil", err |-> r.err, eq |-> r.eq] :
                              r \in SetPair(eq, s, pop(eq.c[s]).key) } : s \in uniq }

\* contains: whether val is a value of m.
contains(m, val) == \E k \in DOMAIN m : m[k] = val

\* Equation.SetPair, the first copy of the source, which is also the one the
\* error-returning Solve finds in its own file: the outcomes [err, key, eq].
\* The test for a host node already in m uses contains, and key is
\* eq.m[sname], the name its message puts first (0, the empty name, when m
\* has no sname); the loop over c removes gname from every set and does not
\* look at what is left.
SetPairOld(eq, sname, gname) ==
    IF contains(eq.m, gname)
    THEN { [err |-> "DuplicateTarget",
            key |-> IF sname \in DOMAIN eq.m THEN eq.m[sname] ELSE 0, eq |-> eq] }
    ELSE LET c1 == Delete(eq.c, sname)
         IN  { [err |-> "nil", key |-> sname,
                eq |-> [c |-> [k \in DOMAIN c1 |-> c1[k] \ {gname}],
                        m |-> Put(eq.m, sname, gname)]] }

\* Equation.SetPair, the last copy of the source: the outcomes [err, key, eq].
\* The test for a host node already in m uses contains and the message puts
\* eq.m[sname] first, as in the first copy; the loop over c is the one of
\* the copy with getKey, which returns at the first key left without
\* candidates.
SetPairContains(eq, sname, gname) ==
    IF contains(eq.m, gname)
    THEN { [err |-> "DuplicateTarget",
            key |-> IF sname \in DOMAIN eq.m THEN eq.m[sname] ELSE 0, eq |-> eq] }
    ELSE LET m1 == Put(eq.m, sname, gname)
             c1 == Delete(eq.c, sname)
             emptied == { k \in DOMAIN c1 : c1[k] \ {gname} = {} }
             strip(P) == [k \in DOMAIN c1 |->
                             IF k \in P THEN c1[k] \ {gname} ELSE c1[k]]
         IN  IF emptied = {}
             THEN { [err |-> "nil", key |-> sname,
                     eq |-> [c |-> strip(DOMAIN c1), m |-> m1]] }
             ELSE { [err |-> "NoCandidates", key |-> f,
                     eq |-> [c |-> strip(P \cup {f}), m |-> m1]] :
                      f \in emptied, P \in SUBSET ((DOMAIN c1) \ emptied) }

\* Equation.SolveUnique of the file of SetPairOld, on that SetPair.
SolveUniqueOld(eq) ==
    LET uniq == { s \in DOMAIN eq.c : Cardinality(eq.c[s]) = 1 }
    IN  IF uniq = {}
        THEN { [ok |-> FALSE, err |-> "nil", eq |-> eq] }
        ELSE UNION { IF pop(eq.c[s]).panic
                     THEN { [ok |-> FALSE, err |-> "panic", eq |-> eq] }
                     ELSE { [ok |-> r.err = "nil", err |-> r.err, eq |-> r.eq] :
                              r \in SetPairOld(eq, s, pop(eq.c[s]).key) } :
                     s \in uniq }

\* solveUniqPair, the SolveUnique of the first Solve (package graphs), on the
\* maps c and m: the outcomes [err, c, m].  Any key with exactly one
\* candidate may be the one the range over c meets first; the candidate is
\* refused when m holds it, and else moved to m and taken from every set of
\* c, with no look at what is left.
solveUniqPair(c, m) ==
    LET uniq == { s \in DOMAIN c : Cardinality(c[s]) = 1 }
    IN  IF uniq = {}
        THEN { [err |-> "NoUniquePair", c |-> c, m |-> m] }
        ELSE { LET gname == pop(c[s]).key
                   c1 == Delete(c, s)
               IN  IF contains(m, gname)
                   THEN [err |-> "DuplicateTarget", c |-> c, m |-> m]
                   ELSE [err |-> "nil",
                         c |-> [k \in DOMAIN c1 |-> c1[k] \ {gname}],
                         m |-> Put(m, s, gname)] : s \in uniq }

RECURSIVE GraphsSolveLoop(_, _, _, _)
\* The loop of the first Solve: the outcomes [err, c, m].  err is "nil" where
\* the loop returns m, which valid has accepted, and "panic" where it reaches
\* panic("foo"), solveUniqPair having failed with c not empty.
GraphsSolveLoop(G, S, c, m) ==
    UNION { IF u.err # "nil"
            THEN { [err |-> IF DOMAIN u.c # {} THEN "panic" ELSE u.err,
                    c |-> u.c, m |-> u.m] }
            ELSE IF valid(G, S, u.m) THEN { [err |-> "nil", c |-> u.c, m |-> u.m] }
            ELSE GraphsSolveLoop(G, S, u.c, u.m) :
            u \in solveUniqPair(c, m) }

\* Solve of package graphs, the first version of the solver, on the candidate
\* table c: the outcomes [err, c, m].
GraphsSolve(G, S, c) ==
    IF Cardinality(DOMAIN c) # S.n
    THEN { [err |-> "IncompleteCandidates", c |-> c, m |-> EmptyMap] }
    ELSE GraphsSolveLoop(G, S, c, EmptyMap)

\* Equation.easiest: the outcomes [err, key].  min and easiest are updated only
\* on a strictly smaller set, so the key returned is the first key of minimal
\* size in the iteration order of c: any key of minimal size.
easiest(eq) ==
    LET size(k) == Cardinality(eq.c[k])
        least == { k \in DOMAIN eq.c : \A j \in DOMAIN eq.c : size(k) <= size(j) }
    IN  IF least = {} \/ \E k \in least : size(k) < 2
        THEN { [err |-> "NoBranchPoint", key |-> 0] }
        ELSE { [err |-> "nil", key |-> k] : k \in least }

\* Equation.Dup: a copy of both maps.
Dup(eq) ==
    [c |-> [s \in DOMAIN eq.c |-> { g \in eq.c[s] : TRUE }],
     m |-> [s \in DOMAIN eq.m |-> eq.m[s]]]

\* Equation.IsSolved, the test of the solver loops: the validator on eq.m.
IsSolved(G, S, eq) == IsValid(G, S, eq.m)

RECURSIVE SolveLoop(_, _, _)
\* The loop of the error-returning Equation.Solve, on the SolveUnique and
\* SetPair of its file: the outcomes [err, eq].  err is "panic" where the
\* loop reaches panic("foo"), with SolveUnique having found no unique pair
\* and c not empty, and "loop" where it goes round for ever, c being empty
\* and m no isomorphism.
SolveLoop(G, S, eq) ==
    UNION { IF u.err # "nil" THEN { [err |-> u.err, eq |-> u.eq] }
            ELSE IF u.ok THEN SolveLoop(G, S, u.eq)
            ELSE IF DOMAIN eq.c # {} THEN { [err |-> "panic", eq |-> eq] }
            ELSE IF IsSolved(G, S, eq) THEN { [err |-> "nil", eq |-> eq] }
            ELSE { [err |-> "loop", eq |-> eq] } :
            u \in SolveUniqueOld(eq) }

\* Equation.Solve, the version that returns an error, in the copy whose
\* SolveUnique returns (ok, err).
Solve(G, S, eq) ==
    IF Cardinality(DOMAIN eq.c) # S.n
    THEN { [err |-> "IncompleteCandidates", eq |-> eq] }
    ELSE SolveLoop(G, S, eq)

\* Equation.SolveUnique of the first copy of the solver, which returns an
\* error only: the outcomes [err, eq].  With no key of one candidate the error
\* is "unable to locate a unique node pair"; otherwise it is what SetPair
\* returns on one such key and its candidate.
SolveUniqueFirst(eq) ==
    LET uniq == { s \in DOMAIN eq.c : Cardinality(eq.c[s]) = 1 }
    IN  IF uniq = {}
        THEN { [err |-> "NoUniquePair", eq |-> eq] }
        ELSE UNION { IF pop(eq.c[s]).panic
                     THEN { [err |-> "panic", eq |-> eq] }
                     ELSE { [err |-> r.err, eq |-> r.eq] :
                              r \in SetPairOld(eq, s, pop(eq.c[s]).key) } :
                     s \in uniq }

RECURSIVE SolveFirstLoop(_, _, _)
\* The loop of the first copy of Equation.Solve: the outcomes [err, eq].  An
\* error of SolveUnique ends in panic("foo") when c is not empty and is
\* returned when c is empty; without error the loop returns nil once
\* IsSolved accepts and goes round again otherwise.
SolveFirstLoop(G, S, eq) ==
    UNION { IF u.err # "nil"
            THEN { [err |-> IF DOMAIN u.eq.c # {} THEN "panic" ELSE u.err,
                    eq |-> u.eq] }
            ELSE IF IsSolved(G, S, u.eq) THEN { [err |-> "nil", eq |-> u.eq] }
            ELSE SolveFirstLoop(G, S, u.eq) :
            u \in SolveUniqueFirst(eq) }

\* Equation.Solve, the first copy of the version that returns an error.
SolveFirst(G, S, eq) ==
    IF Cardinality(DOMAIN eq.c) # S.n
    THEN { [err |-> "IncompleteCandidates", eq |-> eq] }
    ELSE SolveFirstLoop(G, S, eq)

\* The nil map a solver sends or returns on failure.
NilMap == [ok |-> FALSE, m |-> EmptyMap]

RECURSIVE SolveBrute(_, _, _)
RECURSIVE bruteFrom(_, _, _, _, _, _)

\* Equation.SolveBrute: the outcomes [err, m] of the driver loop: unit
\* propagation while it applies, then branching on the easiest key over its
\* candidates in increasing order, each on a copy; the map is accepted by the
\* validator only.
SolveBrute(G, S, eq) ==
    IF ~IsSolved(G, S, eq) /\ DOMAIN eq.c # {}
    THEN UNION { IF u.err # "nil" THEN { [err |-> u.err, m |-> EmptyMap] }
                 ELSE IF u.ok THEN SolveBrute(G, S, u.eq)
                 ELSE UNION { IF e.err # "nil"
                              THEN { [err |-> e.err, m |-> EmptyMap] }
                              ELSE bruteFrom(G, S, eq, e.key, SortedSeq(eq.c[e.key]), 1) :
                              e \in easiest(eq) } :
                 u \in SolveUnique(eq) }
    ELSE IF IsSolved(G, S, eq) THEN { [err |-> "nil", m |-> eq.m] }
    ELSE { [err |-> "NotAnIsomorphism", m |-> EmptyMap] }

\* The branching loop of SolveBrute from the i-th candidate of key sname on:
\* the first branch that succeeds decides.
bruteFrom(G, S, eq, sname, cands, i) ==
    IF i > Len(cands) THEN { [err |-> "NoSolution", m |-> EmptyMap] }
    ELSE LET tries == UNION { IF p.err # "nil"
                              THEN { [err |-> p.err, m |-> EmptyMap] }
                              ELSE SolveBrute(G, S, p.eq) :
                              p \in SetPair(Dup(eq), sname, cands[i]) }
         IN  { r \in tries : r.err = "nil" }
             \cup (IF \E r \in tries : r.err # "nil"
                   THEN bruteFrom(G, S, eq, sname, cands, i + 1)
                   ELSE {})

\* iso.Isomorphism: the outcomes [ok, m]; m is the empty map when ok is false.
Isomorphism(G, entry, S) ==
    LET cand == Candidates(G, entry, S)
    IN  IF cand.err # "nil" THEN { [ok |-> FALSE, m |-> EmptyMap] }
        ELSE { [ok |-> r.err = "nil", m |-> r.m] : r \in SolveBrute(G, S, cand.eq) }

\* ------------------------------------------------------------------ recursive matcher

\* The validation at the end of isIsomorphism for one pair of m (the matcher holds
\* no check for duplicate values).
matchPair(G, S, m, sname) ==
    LET gname == m[sname] IN
    /\ Lookup(S, sname)
    /\ Lookup(G, gname)
    /\ sname # S.entry =>
          /\ Len(Preds(S, sname)) = Len(Preds(G, gname))
          /\ \A i \in 1 .. Len(Preds(S, sname)) :
                \E j \in 1 .. Len(Preds(G, gname)) :
                    /\ Preds(S, sname)[i] \in DOMAIN m
                    /\ m[Preds(S, sname)[i]] = Preds(G, gname)[j]
    /\ sname # S.exit =>
          /\ Len(Succs(S, sname)) = Len(Succs(G, gname))
          /\ \A i \in 1 .. Len(Succs(S, sname)) :
                \E j \in 1 .. Len(Succs(G, gname)) :
                    /\ Succs(S, sname)[i] \in DOMAIN m
                    /\ m[Succs(S, sname)[i]] = Succs(G, gname)[j]

\* The end of isIsomorphism: the map is complete and maps sub onto graph.
isMatch(G, S, m) ==
    /\ Cardinality(DOMAIN m) = S.n
    /\ \A sname \in DOMAIN m : matchPair(G, S, m, sname)

RECURSIVE isIsomorphism(_, _, _, _, _, _)
RECURSIVE trySuccs(_, _, _, _, _, _)
RECURSIVE tryPair(_, _, _, _, _)

\* isIsomorphism(g, s, graph, sub, m, visited): [ok, m, visited], the result
\* and the two maps as the call leaves them.
isIsomorphism(G, S, g, s, m, visited) ==
    IF Cardinality(DOMAIN m) # S.n
    THEN IF s # S.entry /\ Len(Preds(S, s)) # Len(Preds(G, g))
         THEN [ok |-> FALSE, m |-> m, visited |-> visited]
         ELSE LET m1 == IF s = S.entry /\ s \notin DOMAIN m THEN Put(m, s, g) ELSE m
              IN  IF s = S.exit
                  THEN [ok |-> isMatch(G, S, m1), m |-> m1, visited |-> visited]
                  ELSE IF Len(Succs(S, s)) # Len(Succs(G, g))
                       THEN [ok |-> FALSE, m |-> m1, visited |-> visited]
                       ELSE LET r == trySuccs(G, S, SuccPairs(G, S, g, s), 1, m1, visited)
                            IN  IF r.ok THEN r
                                ELSE [ok |-> isMatch(G, S, r.m), m |-> r.m,
                                      visited |-> r.visited]
    ELSE [ok |-> isMatch(G, S, m), m |-> m, visited |-> visited]

\* The body of the nested loops of isIsomorphism for one successor pair:
\* [ok, m, visited, skipped]; ok is true when the recursive call returned
\* true, skipped when the pair had been visited and the loop went on.
tryPair(G, S, pair, m, visited) ==
    LET ssucc == pair[1]
        gsucc == pair[2]
        m1 == IF ssucc \notin DOMAIN m THEN Put(m, ssucc, gsucc) ELSE m
    IN  IF << ssucc, gsucc >> \in visited
        THEN [ok |-> FALSE, m |-> m1, visited |-> visited, skipped |-> TRUE]
        ELSE LET r == isIsomorphism(G, S, gsucc, ssucc, m1,
                                    visited \cup {<< ssucc, gsucc >>})
             IN  IF r.ok
                 THEN [ok |-> TRUE, m |-> r.m, visited |-> r.visited,
                       skipped |-> FALSE]
                 ELSE [ok |-> FALSE, m |-> Delete(r.m, ssucc),
                       visited |-> r.visited, skipped |-> FALSE]

\* The nested loops of isIsomorphism over the successor pairs, from the i-th
\* on; ok is true when a recursive call returned true.
trySuccs(G, S, pairs, i, m, visited) ==
    IF i > Len(pairs) THEN [ok |-> FALSE, m |-> m, visited |-> visited]
    ELSE LET t == tryPair(G, S, pairs[i], m, visited)
         IN  IF t.ok THEN [ok |-> TRUE, m |-> t.m, visited |-> t.visited]
             ELSE trySuccs(G, S, pairs, i + 1, t.m, t.visited)

\* graphs.Isomorphism: [ok, m]; m is the empty map when ok is false.
GraphsIsomorphism(G, entry, S) ==
    IF ~Lookup(G, entry) \/ ~Lookup(S, S.entry) THEN [ok |-> FALSE, m |-> EmptyMap]
    ELSE LET r == isIsomorphism(G, S, entry, S.entry, EmptyMap, {})
         IN  IF r.ok THEN [ok |-> TRUE, m |-> r.m] ELSE [ok |-> FALSE, m |-> EmptyMap]

\* ------------------------------------------------------------------ state

\* graph, sub: the host graph and the subgraph of the session.
\* op:         the call that ran last ("idle" before any).
\* entry:      the entry name the call was given.
\* ret:        what iso.Isomorphism returned.
\* ret2:       what a second iso.Isomorphism on the same arguments returned.
\* old:        what graphs.Isomorphism (the recursive matcher) returned.
\* idx:        Search's position in graph.Nodes.Nodes.
\* found:      what Search returned.
\* labels:     the "label" attribute of each node of the graph handed to
\*             NewSubGraph, in node order.
\* err:        the error NewSubGraph returned.
\* cand:       what Candidates returned.
\* eq:         the equation the calls of SetPair, SolveUnique and Dup act on.
\* step:       the last call made on eq: its name, its arguments s and g, the
\*             equation before it (pre), the error, the key the error message
\*             names, SolveUnique's boolean, and the number of calls so far
\*             that are not the solver's (SetPair with any arguments).
\* walk:       the candidate walk, call by call: the calls of findCandidates
\*             still to be made (stack, the next one first), the table c,
\*             the number n of calls that recorded a pair and the number of
\*             calls made; for the first copy of findCandidates also the
\*             calls that have not returned (running).
\* drv:        a call of Solve or SolveBrute and the goroutines it has
\*             started: the position of the caller (pc), the number i of
\*             values Solve has received and the last of them, the counter
\*             of the wait group of SolveBrute (wg) with its branch key and
\*             the candidates still without goroutine, and the goroutines
\*             that have not returned (procs).
\* mem:        the maps of an equation and of its Dup copy as Go holds
\*             them, by reference: the heap (address to map), the two
\*             equations (the addresses of their c and m), the equation as
\*             it was when Dup returned (snap), which of the two has been
\*             written since (side) and how many times (n).
\* rec:        the outermost call of isIsomorphism, one pass of its nested
\*             loops at a time: its position (pc), m and visited, the
\*             successor pairs and the index i of the next one, m as it was
\*             before the last pair was tried (before), and whether that
\*             pair's recursive call returned true (ok) or was skipped.
VARIABLES graph, sub, op, entry, ret, ret2, old, idx, found, labels, err,
          cand, eq, step, walk, drv, mem, rec

vars == << graph, sub, op, entry, ret, ret2, old, idx, found, labels, err,
          cand, eq, step, walk, drv, mem, rec >>

NoRec == [pc |-> "idle", m |-> EmptyMap, visited |-> {}, pairs |-> << >>,
          i |-> 0, before |-> EmptyMap, ok |-> FALSE, skipped |-> FALSE]

NoHandle == [c |-> 0, m |-> 0]

NoMem == [heap |-> << >>, orig |-> NoHandle, copy |-> NoHandle,
          snap |-> NoEquation, side |-> "idle", n |-> 0]

NoWalk == [stack |-> << >>, c |-> EmptyMap, n |-> 0, calls |-> 0]

NoDrive == [pc |-> "idle", i |-> 0, last |-> [ok |-> FALSE, m |-> EmptyMap],
            wg |-> 0, key |-> 0, todo |-> {}, procs |-> << >>]

NoCandidates == [err |-> "nil", eq |-> NoEquation, expected |-> 0, got |-> 0]

NoStep == [call |-> "none", s |-> 0, g |-> 0, pre |-> NoEquation,
           err |-> "nil", key |-> 0, ok |-> FALSE, free |-> 0]

\* The subgraphs NewSubGraph can return: entry and exit are two of the nodes
\* (a node carries one label).
SubGraphsUpTo(k) ==
    { S \in { [n |-> G.n, E |-> G.E, entry |-> en, exit |-> ex] :
                G \in GraphsUpTo(k), en \in Names, ex \in Names } :
        S.entry \in Nodes(S) /\ S.exit \in Nodes(S) /\ S.entry # S.exit }

Init ==
    /\ graph \in GraphsUpTo(MaxHostEdges)
    /\ sub \in SubGraphsUpTo(MaxSubEdges)
    /\ op = "idle"
    /\ entry = 0
    /\ ret = NilMap
    /\ ret2 = NilMap
    /\ old = NilMap
    /\ idx = 0
    /\ found = NilMap
    /\ labels = << >>
    /\ err = "nil"
    /\ cand = NoCandidates
    /\ eq = NoEquation
    /\ step = NoStep
    /\ walk = NoWalk
    /\ drv = NoDrive
    /\ mem = NoMem
    /\ rec = NoRec

\* m, ok := iso.Isomorphism(graph, e, sub)
CallIsomorphism ==
    /\ op = "idle"
    /\ \E e \in Names :
        /\ entry' = e
        /\ ret' \in Isomorphism(graph, e, sub)
    /\ op' = "Isomorphism"
    /\ UNCHANGED << graph, sub, ret2, old, idx, found, labels, err, cand, eq, step,
                   walk, drv, mem, rec >>

\* The same call once more.
CallIsomorphismAgain ==
    /\ op = "Isomorphism"
    /\ ret2' \in Isomorphism(graph, entry, sub)
    /\ op' = "IsomorphismAgain"
    /\ UNCHANGED << graph, sub, entry, ret, old, idx, found, labels, err, cand, eq, step,
                   walk, drv, mem, rec >>

\* m, ok := graphs.Isomorphism(graph, entry, sub), after iso.Isomorphism on
\* the same arguments.
CallGraphsIsomorphism ==
    /\ op = "Isomorphism"
    /\ old' = GraphsIsomorphism(graph, entry, sub)
    /\ op' = "GraphsIsomorphism"
    /\ UNCHANGED << graph, sub, entry, ret, ret2, idx, found, labels, err, cand, eq, step,
                   walk, drv, mem, rec >>

NodeAt_Backwards(G, k) == G.n + 1 - k

\* graph.Nodes.Nodes[k-1]: the name of the k-th node in the graph's node order.
NodeAt(G, k) == k

\* One iteration of the loop of graphs.Search over graph.Nodes.Nodes (the
\* first one starts the call); the loop returns at the first node where
\* graphs.Isomorphism succeeds, and (nil, false) past the last node.
SearchStep ==
    /\ op \in {"idle", "Search"}
    /\ IF idx + 1 > graph.n
       THEN /\ op' = "SearchDone"
            /\ found' = NilMap
            /\ idx' = idx
       ELSE LET r == GraphsIsomorphism(graph, NodeAt(graph, idx + 1), sub)
            IN  /\ idx' = idx + 1
                /\ found' = r
                /\ op' = IF r.ok THEN "SearchDone" ELSE "Search"
    /\ UNCHANGED << graph, sub, entry, ret, ret2, old, labels, err, cand, eq, step,
                   walk, drv, mem, rec >>

Next ==
    \/ CallIsomorphism
    \/ CallIsomorphismAgain
    \/ CallGraphsIsomorphism
    \/ SearchStep

Spec == Init /\ [][Next]_vars

\* ------------------------------------------------------------------ validator alone

\* The known maps handed to the validator: any keys and values among the
\* names, so a key or a value can be a name the graph does not hold.
KnownMaps == UNION { [K -> Names] : K \in SUBSET Names }

InitValid ==
    /\ graph \in GraphsUpTo(MaxValidEdges)
    /\ sub \in SubGraphsUpTo(MaxValidEdges)
    /\ op = "idle"
    /\ entry = 0
    /\ ret = NilMap
    /\ ret2 = NilMap
    /\ old = NilMap
    /\ idx = 0
    /\ found = NilMap
    /\ labels = << >>
    /\ err = "nil"
    /\ cand = NoCandidates
    /\ eq = NoEquation
    /\ step = NoStep
    /\ walk = NoWalk
    /\ drv = NoDrive
    /\ mem = NoMem
    /\ rec = NoRec

\* ok := eq.IsValid(graph, sub) on an equation whose known map is M.
CallIsValid ==
    /\ op = "idle"
    /\ \E M \in KnownMaps : ret' = [ok |-> IsValid(graph, sub, M), m |-> M]
    /\ op' = "IsValid"
    /\ UNCHANGED << graph, sub, entry, ret2, old, idx, found, labels, err, cand, eq, step,
                   walk, drv, mem, rec >>

NextValid == CallIsValid

SpecValid == InitValid /\ [][NextValid]_vars

\* ------------------------------------------------------------------ subgraph constructor

\* What the "label" attribute of a node can be: the two labels NewSubGraph
\* looks for, some other label, or no such attribute.
Labels == {"entry", "exit", "other", "none"}

RECURSIVE SeqsUpTo(_, _)
\* Every sequence over S of length at most k.
SeqsUpTo(S, k) ==
    IF k = 0 THEN { << >> }
    ELSE LET shorter == SeqsUpTo(S, k - 1)
         IN  shorter \cup { Append(q, x) : q \in { r \in shorter : Len(r) = k - 1 }, x \in S }

\* The nil *SubGraph.
NoSubGraph == [n |-> 0, E |-> {}, entry |-> 0, exit |-> 0]

RECURSIVE locate_LastWins(_, _, _)
locate_LastWins(ls, i, st) ==
    IF i > Len(ls)
    THEN IF ~st.hasEntry THEN [err |-> "NoEntry", entry |-> 0, exit |-> 0]
         ELSE IF ~st.hasExit THEN [err |-> "NoExit", entry |-> 0, exit |-> 0]
         ELSE [err |-> "nil", entry |-> st.entry, exit |-> st.exit]
    ELSE IF ls[i] = "entry"
         THEN locate_LastWins(ls, i + 1, [st EXCEPT !.entry = i, !.hasEntry = TRUE])
    ELSE IF ls[i] = "exit"
         THEN locate_LastWins(ls, i + 1, [st EXCEPT !.exit = i, !.hasExit = TRUE])
    ELSE locate_LastWins(ls, i + 1, st)

RECURSIVE locate(_, _, _)
\* The loop of NewSubGraph over graph.Nodes.Nodes from the i-th node on, and
\* the two tests after it; st holds hasEntry, hasExit, sub.entry and sub.exit.
locate(ls, i, st) ==
    IF i > Len(ls)
    THEN IF ~st.hasEntry THEN [err |-> "NoEntry", entry |-> 0, exit |-> 0]
         ELSE IF ~st.hasExit THEN [err |-> "NoExit", entry |-> 0, exit |-> 0]
         ELSE [err |-> "nil", entry |-> st.entry, exit |-> st.exit]
    ELSE IF ls[i] = "entry"
         THEN IF st.hasEntry THEN [err |-> "RedefEntry", entry |-> 0, exit |-> 0]
              ELSE locate(ls, i + 1, [st EXCEPT !.entry = i, !.hasEntry = TRUE])
    ELSE IF ls[i] = "exit"
         THEN IF st.hasExit THEN [err |-> "RedefExit", entry |-> 0, exit |-> 0]
              ELSE locate(ls, i + 1, [st EXCEPT !.exit = i, !.hasExit = TRUE])
    ELSE locate(ls, i + 1, st)

\* NewSubGraph(graph) on a graph whose nodes carry the labels ls: [err, sub].
NewSubGraph(G, ls) ==
    LET r == locate(ls, 1, [hasEntry |-> FALSE, hasExit |-> FALSE,
                            entry |-> 0, exit |-> 0])
    IN  IF r.err # "nil" THEN [err |-> r.err, sub |-> NoSubGraph]
        ELSE [err |-> "nil",
              sub |-> [n |-> G.n, E |-> G.E, entry |-> r.entry, exit |-> r.exit]]

\* sub.Entry() and sub.Exit().
Entry(S) == S.entry
Exit(S) == S.exit

InitSub ==
    /\ labels \in SeqsUpTo(Labels, MaxLabelled)
    /\ graph \in { [n |-> Len(labels), E |-> E] :
                     E \in { {}, { << k, k >> : k \in 1 .. Len(labels) } } }
    /\ sub = NoSubGraph
    /\ op = "idle"
    /\ entry = 0
    /\ ret = NilMap
    /\ ret2 = NilMap
    /\ old = NilMap
    /\ idx = 0
    /\ found = NilMap
    /\ err = "nil"
    /\ cand = NoCandidates
    /\ eq = NoEquation
    /\ step = NoStep
    /\ walk = NoWalk
    /\ drv = NoDrive
    /\ mem = NoMem
    /\ rec = NoRec

\* sub, err := NewSubGraph(graph)
CallNewSubGraph ==
    /\ op = "idle"
    /\ sub' = NewSubGraph(graph, labels).sub
    /\ err' = NewSubGraph(graph, labels).err
    /\ op' = "NewSubGraph"
    /\ UNCHANGED << graph, entry, ret, ret2, old, idx, found, labels, cand, eq, step,
                   walk, drv, mem, rec >>

NextSub == CallNewSubGraph

SpecSub == InitSub /\ [][NextSub]_vars

\* ------------------------------------------------- the equation, call by call

\* TestCandidates, TestEquationSetPair, TestEquationSolveUnique and
\* TestEquationDup: Candidates builds an equation, and SetPair, SolveUnique and
\* Dup are then called on it in any order and with any arguments.
InitEq ==
    /\ graph \in GraphsUpTo(MaxEqEdges)
    /\ sub \in SubGraphsUpTo(MaxEqEdges)
    /\ op = "idle"
    /\ entry = 0
    /\ ret = NilMap
    /\ ret2 = NilMap
    /\ old = NilMap
    /\ idx = 0
    /\ found = NilMap
    /\ labels = << >>
    /\ err = "nil"
    /\ cand = NoCandidates
    /\ eq = NoEquation
    /\ step = NoStep
    /\ walk = NoWalk
    /\ drv = NoDrive
    /\ mem = NoMem
    /\ rec = NoRec

\* eq, err := iso.Candidates(graph, e, sub)
CallCandidates ==
    /\ op = "idle"
    /\ \E e \in Names :
         /\ entry' = e
         /\ cand' = Candidates(graph, e, sub)
         /\ eq' = Candidates(graph, e, sub).eq
    /\ op' = "Candidates"
    /\ UNCHANGED << graph, sub, ret, ret2, old, idx, found, labels, err, step,
                   walk, drv, mem, rec >>

\* Calls on eq are made once Candidates has returned an equation.
HasEquation == op \in {"Candidates", "step"} /\ cand.err = "nil"

\* err := eq.SetPair(s, g), with any two names, where SetPair is the copy of
\* the source that tests with getKey.
StepSetPair ==
    /\ HasEquation
    /\ step.free < MaxFreeCalls
    /\ \E s \in Names, g \in Names : \E r \in SetPair(eq, s, g) :
         /\ eq' = r.eq
         /\ step' = [call |-> "SetPair", s |-> s, g |-> g, pre |-> eq,
                     err |-> r.err, key |-> r.key, ok |-> FALSE,
                     free |-> step.free + 1]
    /\ op' = "step"
    /\ UNCHANGED << graph, sub, entry, ret, ret2, old, idx, found, labels, err, cand,
                   walk, drv, mem, rec >>

\* The same call where SetPair is the first copy of the source.
StepSetPairOld ==
    /\ HasEquation
    /\ step.free < MaxFreeCalls
    /\ \E s \in Names, g \in Names : \E r \in SetPairOld(eq, s, g) :
         /\ eq' = r.eq
         /\ step' = [call |-> "SetPairOld", s |-> s, g |-> g, pre |-> eq,
                     err |-> r.err, key |-> r.key, ok |-> FALSE,
                     free |-> step.free + 1]
    /\ op' = "step"
    /\ UNCHANGED << graph, sub, entry, ret, ret2, old, idx, found, labels, err, cand,
                   walk, drv, mem, rec >>

\* The same call where SetPair is the last copy of the source.
StepSetPairContains ==
    /\ HasEquation
    /\ step.free < MaxFreeCalls
    /\ \E s \in Names, g \in Names : \E r \in SetPairContains(eq, s, g) :
         /\ eq' = r.eq
         /\ step' = [call |-> "SetPairContains", s |-> s, g |-> g, pre |-> eq,
                     err |-> r.err, key |-> r.key, ok |-> FALSE,
                     free |-> step.free + 1]
    /\ op' = "step"
    /\ UNCHANGED << graph, sub, entry, ret, ret2, old, idx, found, labels, err, cand,
                   walk, drv, mem, rec >>

\* ok, err := eq.SolveUnique()
StepSolveUnique ==
    /\ HasEquation
    /\ \E r \in SolveUnique(eq) :
         /\ eq' = r.eq
         /\ step' = [call |-> "SolveUnique", s |-> 0, g |-> 0, pre |-> eq,
                     err |-> r.err, key |-> 0, ok |-> r.ok,
                     free |-> step.free]
    /\ op' = "step"
    /\ UNCHANGED << graph, sub, entry, ret, ret2, old, idx, found, labels, err, cand,
                   walk, drv, mem, rec >>

\* The branch of solve: key, err := eq.easiest(); for each candidate g of key,
\* dup := eq.Dup(); dup.SetPair(key, g), the error ignored.  eq becomes one of
\* the copies.
StepBranch ==
    /\ HasEquation
    /\ \E e \in easiest(eq) :
         /\ e.err = "nil"
         /\ \E g \in eq.c[e.key] : \E r \in SetPair(Dup(eq), e.key, g) :
              /\ eq' = r.eq
              /\ step' = [call |-> "Branch", s |-> e.key, g |-> g, pre |-> eq,
                          err |-> r.err, key |-> r.key, ok |-> FALSE,
                          free |-> step.free]
    /\ op' = "step"
    /\ UNCHANGED << graph, sub, entry, ret, ret2, old, idx, found, labels, err, cand,
                   walk, drv, mem, rec >>

\* err := eq.Solve(graph, sub)
CallSolve ==
    /\ HasEquation
    /\ \E r \in Solve(graph, sub, eq) :
         /\ eq' = r.eq
         /\ err' = r.err
    /\ op' = "Solve"
    /\ UNCHANGED << graph, sub, entry, ret, ret2, old, idx, found, labels, cand, step,
                   walk, drv, mem, rec >>

\* err := eq.Solve(graph, sub), with the first copy of Solve.
CallSolveFirst ==
    /\ HasEquation
    /\ \E r \in SolveFirst(graph, sub, eq) :
         /\ eq' = r.eq
         /\ err' = r.err
    /\ op' = "SolveFirst"
    /\ UNCHANGED << graph, sub, entry, ret, ret2, old, idx, found, labels, cand, step,
                   walk, drv, mem, rec >>

NextEq ==
    \/ CallCandidates
    \/ StepSetPair
    \/ StepSolveUnique
    \/ StepBranch
    \/ CallSolve
    \/ CallSolveFirst

SpecEq == InitEq /\ [][NextEq]_vars

\* The three copies of SetPair side by side: Candidates builds an equation,
\* SolveUnique moves pairs to m, and SetPair is called in any of its copies
\* with any arguments.
NextCopies ==
    \/ CallCandidates
    \/ StepSolveUnique
    \/ StepSetPair
    \/ StepSetPairOld
    \/ StepSetPairContains

SpecCopies == InitEq /\ [][NextCopies]_vars

\* ------------------------------------------- Candidates and Solve, step by step

\* Candidates up to its call of findCandidates: the lookups and the test of
\* the entry pair.  When one of them fails Candidates returns its error.
CandidatesBegin ==
    /\ op = "idle"
    /\ \E e \in Names :
         /\ entry' = e
         /\ IF Lookup(graph, e) /\ Lookup(sub, sub.entry)
               /\ isPotential(graph, sub, e, sub.entry)
            THEN /\ walk' = [stack |-> << << sub.entry, e >> >>, c |-> EmptyMap,
                             n |-> 0, calls |-> 0]
                 /\ op' = "findCandidates"
                 /\ UNCHANGED << cand, eq, mem, rec >>
            ELSE /\ cand' = Candidates(graph, e, sub)
                 /\ eq' = Candidates(graph, e, sub).eq
                 /\ op' = "Candidates"
                 /\ UNCHANGED walk
    /\ UNCHANGED << graph, sub, ret, ret2, old, idx, found, labels, err, step, drv, mem, rec >>

\* The next call of findCandidates.
WalkStep ==
    /\ op = "findCandidates"
    /\ walk.stack # << >>
    /\ walk.n < MaxExpansions
    /\ walk' = findCandidatesCall(graph, sub, walk)
    /\ UNCHANGED << graph, sub, op, entry, ret, ret2, old, idx, found, labels, err,
                   cand, eq, step, drv, mem, rec >>

\* Candidates after findCandidates has returned: the count of the keys of c.
CandidatesEnd ==
    /\ op = "findCandidates"
    /\ walk.stack = << >>
    /\ cand' = IF Cardinality(DOMAIN walk.c) # sub.n
               THEN [err |-> "IncompleteCandidates", eq |-> NoEquation,
                     expected |-> sub.n, got |-> Cardinality(DOMAIN walk.c)]
               ELSE [err |-> "nil", eq |-> [c |-> walk.c, m |-> EmptyMap],
                     expected |-> 0, got |-> 0]
    /\ eq' = cand'.eq
    /\ op' = "Candidates"
    /\ UNCHANGED << graph, sub, entry, ret, ret2, old, idx, found, labels, err,
                   step, walk, drv, mem, rec >>

\* Candidates where findCandidates is the first copy of the source, up to its
\* call of findCandidates.
CandidatesOldBegin ==
    /\ op = "idle"
    /\ \E e \in Names :
         /\ entry' = e
         /\ IF Lookup(graph, e) /\ Lookup(sub, sub.entry)
               /\ isPotential(graph, sub, e, sub.entry)
            THEN /\ walk' = [stack |-> << << sub.entry, e >> >>, c |-> EmptyMap,
                             n |-> 0, calls |-> 0, running |-> << >>]
                 /\ op' = "findCandidatesOld"
                 /\ UNCHANGED << cand, eq >>
            ELSE /\ cand' = Candidates(graph, e, sub)
                 /\ eq' = Candidates(graph, e, sub).eq
                 /\ op' = "CandidatesOld"
                 /\ UNCHANGED walk
    /\ UNCHANGED << graph, sub, ret, ret2, old, idx, found, labels, err, step, drv, mem, rec >>

\* The next call of that findCandidates, or the return of the innermost
\* running one.
WalkStepOld ==
    /\ op = "findCandidatesOld"
    /\ walk.stack # << >>
    /\ walk.calls < MaxCalls
    /\ walk' = findCandidatesCallOld(graph, sub, walk)
    /\ UNCHANGED << graph, sub, op, entry, ret, ret2, old, idx, found, labels, err,
                   cand, eq, step, drv, mem, rec >>

\* Candidates after that findCandidates has returned.
CandidatesOldEnd ==
    /\ op = "findCandidatesOld"
    /\ walk.stack = << >>
    /\ cand' = IF Cardinality(DOMAIN walk.c) # sub.n
               THEN [err |-> "IncompleteCandidates", eq |-> NoEquation,
                     expected |-> sub.n, got |-> Cardinality(DOMAIN walk.c)]
               ELSE [err |-> "nil", eq |-> [c |-> walk.c, m |-> EmptyMap],
                     expected |-> 0, got |-> 0]
    /\ eq' = cand'.eq
    /\ op' = "CandidatesOld"
    /\ UNCHANGED << graph, sub, entry, ret, ret2, old, idx, found, labels, err,
                   step, walk, drv, mem, rec >>

\* m, err := Solve(graph, sub, c) of package graphs, on the table of that
\* walk; eq shows the two maps as the call leaves them.
CallGraphsSolve ==
    /\ op = "CandidatesOld"
    /\ cand.err = "nil"
    /\ \E r \in GraphsSolve(graph, sub, eq.c) :
         /\ ret' = IF r.err = "nil" THEN [ok |-> TRUE, m |-> r.m] ELSE NilMap
         /\ err' = r.err
         /\ eq' = [c |-> r.c, m |-> r.m]
    /\ op' = "GraphsSolve"
    /\ UNCHANGED << graph, sub, entry, ret2, old, idx, found, labels,
                   cand, step, walk, drv, mem, rec >>

\* The goroutines of a run, each under its name: the root is the goroutine
\* Solve started, and the goroutine started for candidate g in branch round
\* r of goroutine p is p \o << r, g >>.  The equation of the root is the
\* caller's (go eq.solve), the others own a copy.
Root == << >>

\* A goroutine: pc, where it stands; eq, its equation; key, g: the pair its
\* copy was made for; todo: the candidates of the branch key still without
\* goroutine; need, got: ncandidates and the count of the receive loop;
\* round: the branch rounds it has begun; val, after: the value of the send
\* it stands at ([ok, m], ok false for nil) and whether the function
\* returns after it or goes round its loop; par, pround: the goroutine whose
\* channel in it sends on, and the round that made the channel.
NewRoutine(e, sname, gname, parent, r) ==
    [pc |-> "setpair", eq |-> e, key |-> sname, g |-> gname, todo |-> {},
     need |-> 0, got |-> 0, round |-> 0, val |-> [ok |-> FALSE, m |-> EmptyMap],
     after |-> "exit", par |-> parent, pround |-> r]

\* The goroutines with p standing as P now.
WithRoutine(p, P) ==
    [x \in (DOMAIN drv.procs) \cup {p} |-> IF x = p THEN P ELSE drv.procs[x]]

\* The goroutines once p has returned.
WithoutRoutine(procs, p) == [x \in (DOMAIN procs) \ {p} |-> procs[x]]

\* A step of goroutine p that changes nothing but p, which stands as P after
\* it; a step of the root writes the caller's equation.
Local(p, P) ==
    /\ drv' = [drv EXCEPT !.procs = WithRoutine(p, P)]
    /\ eq' = IF p = Root THEN P.eq ELSE eq
    /\ UNCHANGED << graph, sub, op, entry, ret, ret2, old, idx, found, labels, err,
                   cand, step, walk, mem, rec >>

\* The goroutine as it stands after the send it was blocked at: it has
\* returned, or is at the head of its loop.
AfterSend(procs, p) ==
    IF procs[p].after = "exit" THEN WithoutRoutine(procs, p)
    ELSE [procs EXCEPT ![p].pc = "test"]

\* Equation.Solve: out := make(chan ...); go eq.solve(graph, sub, out).
SolveStart ==
    /\ op = "Candidates"
    /\ cand.err = "nil"
    /\ drv' = [NoDrive EXCEPT
                 !.pc = "recv",
                 !.procs = [x \in {Root} |->
                              [NewRoutine(eq, 0, 0, Root, 0) EXCEPT !.pc = "test"]]]
    /\ op' = "Solve"
    /\ UNCHANGED << graph, sub, entry, ret, ret2, old, idx, found, labels, err,
                   cand, eq, step, walk, mem, rec >>

\* solve, the head of the loop: for !eq.IsSolved(graph, sub), and the test
\* of len(eq.c) that begins the body.  After the loop comes out <- eq.m.
GoTest ==
    /\ op = "Solve"
    /\ \E p \in DOMAIN drv.procs :
         LET P == drv.procs[p] IN
         /\ P.pc = "test"
         /\ Local(p, IF IsSolved(graph, sub, P.eq)
                     THEN [P EXCEPT !.pc = "send", !.after = "exit",
                                    !.val = [ok |-> TRUE, m |-> P.eq.m]]
                     ELSE IF DOMAIN P.eq.c = {}
                     THEN [P EXCEPT !.pc = "send", !.after = "exit",
                                    !.val = [ok |-> FALSE, m |-> EmptyMap]]
                     ELSE [P EXCEPT !.pc = "unique"])

\* solve: ok, err := eq.SolveUnique(); an error leads to out <- nil and the
\* return, ok to the head of the loop.
GoUnique ==
    /\ op = "Solve"
    /\ \E p \in DOMAIN drv.procs :
         LET P == drv.procs[p] IN
         /\ P.pc = "unique"
         /\ \E u \in SolveUnique(P.eq) :
              Local(p, IF u.err # "nil"
                       THEN [P EXCEPT !.pc = "send", !.after = "exit", !.eq = u.eq,
                                      !.val = [ok |-> FALSE, m |-> EmptyMap]]
                       ELSE IF u.ok THEN [P EXCEPT !.pc = "test", !.eq = u.eq]
                       ELSE [P EXCEPT !.pc = "easiest"])

\* solve: sname, err := eq.easiest(); an error leads to out <- nil and the
\* return; otherwise candidates, ncandidates and the channel in of a new
\* branch round.
GoEasiest ==
    /\ op = "Solve"
    /\ \E p \in DOMAIN drv.procs :
         LET P == drv.procs[p] IN
         /\ P.pc = "easiest"
         /\ \E e \in easiest(P.eq) :
              Local(p, IF e.err # "nil"
                       THEN [P EXCEPT !.pc = "send", !.after = "exit",
                                      !.val = [ok |-> FALSE, m |-> EmptyMap]]
                       ELSE [P EXCEPT !.pc = "spawn", !.key = e.key,
                                      !.todo = P.eq.c[e.key],
                                      !.need = Cardinality(P.eq.c[e.key]),
                                      !.got = 0, !.round = P.round + 1])

\* solve: one go statement of the range over candidates, on eq.Dup(); after
\* the last one the goroutine stands at its receive loop with m nil.
GoSpawn ==
    /\ op = "Solve"
    /\ \E p \in DOMAIN drv.procs :
         LET P == drv.procs[p] IN
         /\ P.pc = "spawn"
         /\ \E g \in P.todo :
              LET q == p \o << P.round, g >>
                  P1 == [P EXCEPT !.todo = P.todo \ {g},
                                  !.pc = IF P.todo = {g} THEN "recv" ELSE "spawn"]
              IN  /\ q \notin DOMAIN drv.procs
                  /\ drv' = [drv EXCEPT !.procs =
                               [x \in (DOMAIN drv.procs) \cup {q} |->
                                  IF x = p THEN P1
                                  ELSE IF x = q
                                  THEN NewRoutine(Dup(P.eq), P.key, g, p, P.round)
                                  ELSE drv.procs[x]]]
    /\ UNCHANGED << graph, sub, op, entry, ret, ret2, old, idx, found, labels, err,
                   cand, eq, step, walk, mem, rec >>

\* The started function: err := eq.SetPair(sname, gname) on the copy, the
\* error logged; then eq.solve(graph, sub, in).
GoSetPair ==
    /\ op = "Solve"
    /\ \E p \in DOMAIN drv.procs :
         LET P == drv.procs[p] IN
         /\ P.pc = "setpair"
         /\ \E r \in SetPair(P.eq, P.key, P.g) :
              Local(p, [P EXCEPT !.pc = "test", !.eq = r.eq])

\* A send on in meets a receive of the loop over ncandidates: m is nil, so
\* the receive is <-in and the value is dropped.  After the last receive
\* comes out <- m with m nil, and the loop again.
GoReceive ==
    /\ op = "Solve"
    /\ \E p \in DOMAIN drv.procs, q \in DOMAIN drv.procs :
         LET P == drv.procs[p]
             Q == drv.procs[q]
         IN  /\ P.pc = "recv"
             /\ q # Root
             /\ Q.pc = "send"
             /\ Q.par = p
             /\ Q.pround = P.round
             /\ drv' = [drv EXCEPT !.procs =
                          AfterSend([drv.procs EXCEPT
                                       ![p] = IF P.got + 1 = P.need
                                              THEN [P EXCEPT !.got = P.got + 1,
                                                      !.pc = "send", !.after = "loop",
                                                      !.val = [ok |-> FALSE,
                                                               m |-> EmptyMap]]
                                              ELSE [P EXCEPT !.got = P.got + 1]], q)]
    /\ UNCHANGED << graph, sub, op, entry, ret, ret2, old, idx, found, labels, err,
                   cand, eq, step, walk, mem, rec >>

\* A send of the root on out meets m := <-out of the loop of Solve, which
\* counts it in i.
SolveReceive ==
    /\ op = "Solve"
    /\ drv.pc = "recv"
    /\ drv.i < SolveReads
    /\ Root \in DOMAIN drv.procs
    /\ drv.procs[Root].pc = "send"
    /\ drv' = [drv EXCEPT !.i = drv.i + 1, !.last = drv.procs[Root].val,
                          !.procs = AfterSend(drv.procs, Root)]
    /\ UNCHANGED << graph, sub, op, entry, ret, ret2, old, idx, found, labels, err,
                   cand, eq, step, walk, mem, rec >>

\* Solve has received SolveReads values: return nil, nil.
SolveReturn ==
    /\ op = "Solve"
    /\ drv.i = SolveReads
    /\ drv' = [drv EXCEPT !.pc = "returned"]
    /\ ret' = NilMap
    /\ err' = "nil"
    /\ op' = "SolveReturned"
    /\ UNCHANGED << graph, sub, entry, ret2, old, idx, found, labels,
                   cand, eq, step, walk, mem, rec >>

NextRun ==
    \/ CandidatesBegin
    \/ WalkStep
    \/ CandidatesEnd
    \/ CandidatesOldBegin
    \/ WalkStepOld
    \/ CandidatesOldEnd
    \/ CallGraphsSolve
    \/ CallIsomorphism
    \/ SolveStart
    \/ GoTest
    \/ GoUnique
    \/ GoEasiest
    \/ GoSpawn
    \/ GoSetPair
    \/ GoReceive
    \/ SolveReceive
    \/ SolveReturn

SpecRun == InitEq /\ [][NextRun]_vars

\* ------------------------------------------- SolveBrute and its goroutines

\* Equation.SolveBrute, the version with the wait group, up to the range
\* over candidates: easiest, whose error is returned, then wg.Add and
\* out := make(chan ...).
BruteStart ==
    /\ HasEquation
    /\ \E e \in easiest(eq) :
         IF e.err # "nil"
         THEN /\ err' = e.err
              /\ op' = "SolveBruteReturned"
              /\ drv' = drv
         ELSE /\ err' = err
              /\ op' = "SolveBrute"
              /\ drv' = [NoDrive EXCEPT !.pc = "spawn", !.key = e.key,
                                        !.todo = eq.c[e.key],
                                        !.wg = Cardinality(eq.c[e.key])]
    /\ UNCHANGED << graph, sub, entry, ret, ret2, old, idx, found, labels,
                   cand, eq, step, walk, mem, rec >>

\* One go brute(graph, sub, eq.Dup(), sname, gname, wg, out) of the range
\* over candidates; after the last one SolveBrute stands at wg.Wait().
BruteSpawn ==
    /\ op = "SolveBrute"
    /\ drv.pc = "spawn"
    /\ \E g \in drv.todo :
         drv' = [drv EXCEPT !.todo = drv.todo \ {g},
                            !.pc = IF drv.todo = {g} THEN "wait" ELSE "spawn",
                            !.procs = WithRoutine(<< g >>,
                                        NewRoutine(Dup(eq), drv.key, g, Root, 0))]
    /\ UNCHANGED << graph, sub, op, entry, ret, ret2, old, idx, found, labels, err,
                   cand, eq, step, walk, mem, rec >>

\* brute: err := eq.SetPair(sname, gname) on the copy, the error logged.
BruteSetPair ==
    /\ op = "SolveBrute"
    /\ \E p \in DOMAIN drv.procs :
         LET P == drv.procs[p] IN
         /\ P.pc = "setpair"
         /\ \E r \in SetPair(P.eq, P.key, P.g) :
              Local(p, [P EXCEPT !.pc = "len", !.eq = r.eq])

\* brute: if len(eq.c) == 0 { out <- nil }.  Nothing receives from out, so
\* a goroutine that stands at a send stays there.
BruteLen ==
    /\ op = "SolveBrute"
    /\ \E p \in DOMAIN drv.procs :
         LET P == drv.procs[p] IN
         /\ P.pc = "len"
         /\ Local(p, IF DOMAIN P.eq.c = {}
                     THEN [P EXCEPT !.pc = "send", !.after = "solved",
                                    !.val = [ok |-> FALSE, m |-> EmptyMap]]
                     ELSE [P EXCEPT !.pc = "solved"])

\* brute: if eq.IsSolved(graph, sub) { out <- eq.m }.
BruteSolved ==
    /\ op = "SolveBrute"
    /\ \E p \in DOMAIN drv.procs :
         LET P == drv.procs[p] IN
         /\ P.pc = "solved"
         /\ Local(p, IF IsSolved(graph, sub, P.eq)
                     THEN [P EXCEPT !.pc = "send", !.after = "done",
                                    !.val = [ok |-> TRUE, m |-> P.eq.m]]
                     ELSE [P EXCEPT !.pc = "done"])

\* brute: wg.Done(), and the return.
BruteDone ==
    /\ op = "SolveBrute"
    /\ \E p \in DOMAIN drv.procs :
         /\ drv.procs[p].pc = "done"
         /\ drv' = [drv EXCEPT !.wg = drv.wg - 1,
                               !.procs = WithoutRoutine(drv.procs, p)]
    /\ UNCHANGED << graph, sub, op, entry, ret, ret2, old, idx, found, labels, err,
                   cand, eq, step, walk, mem, rec >>

\* SolveBrute: wg.Wait() returns once the counter is zero; return nil.
BruteWait ==
    /\ op = "SolveBrute"
    /\ drv.pc = "wait"
    /\ drv.wg = 0
    /\ drv' = [drv EXCEPT !.pc = "returned"]
    /\ err' = "nil"
    /\ op' = "SolveBruteReturned"
    /\ UNCHANGED << graph, sub, entry, ret, ret2, old, idx, found, labels,
                   cand, eq, step, walk, mem, rec >>

NextBrute ==
    \/ CallCandidates
    \/ StepSolveUnique
    \/ BruteStart
    \/ BruteSpawn
    \/ BruteSetPair
    \/ BruteLen
    \/ BruteSolved
    \/ BruteDone
    \/ BruteWait

SpecBrute == InitEq /\ [][NextBrute]_vars

\* --------------------------------------------------- Dup, maps by reference

\* A Go map is a reference: the heap maps an address to the contents of the
\* map made there.  An equation holds the address of m and the address of c,
\* and c holds, for each key, the address of the key's candidate set.

\* The equation e laid out from address 1: m at 1, c at 2, the set of key k
\* at 2 + k.
Alloc(e) ==
    [heap |-> [a \in {1, 2} \cup { 2 + k : k \in DOMAIN e.c } |->
                 IF a = 1 THEN e.m
                 ELSE IF a = 2 THEN [k \in DOMAIN e.c |-> 2 + k]
                 ELSE e.c[a - 2]],
     h |-> [c |-> 2, m |-> 1]]

\* The equation read through the handle h.
View(heap, h) ==
    [c |-> [k \in DOMAIN heap[h.c] |-> heap[heap[h.c][k]]],
     m |-> heap[h.m]]

\* The largest address in use.
Top(heap) == CHOOSE a \in DOMAIN heap : \A b \in DOMAIN heap : b <= a

DupMaps_SharedSets(heap, h) ==
    LET base == Top(heap)
        keys == DOMAIN heap[h.c]
    IN  [heap |-> [a \in DOMAIN heap \cup {base + 1, base + 2} |->
                     IF a \in DOMAIN heap THEN heap[a]
                     ELSE IF a = base + 1 THEN heap[h.m]
                     ELSE [k \in keys |-> heap[h.c][k]]],
         h |-> [c |-> base + 2, m |-> base + 1]]

\* Equation.Dup on the heap: make gives a new map for c, for every candidate
\* set and for m, and the loops copy the entries.
DupMaps(heap, h) ==
    LET base == Top(heap)
        keys == DOMAIN heap[h.c]
    IN  [heap |-> [a \in DOMAIN heap \cup {base + 1, base + 2}
                           \cup { base + 2 + k : k \in keys } |->
                     IF a \in DOMAIN heap THEN heap[a]
                     ELSE IF a = base + 1 THEN heap[h.m]
                     ELSE IF a = base + 2 THEN [k \in keys |-> base + 2 + k]
                     ELSE heap[heap[h.c][a - base - 2]]],
         h |-> [c |-> base + 2, m |-> base + 1]]

\* The heap after writes made in place through h that bring the equation
\* seen through h to new: m[..] = .. and delete(m, ..) on the map of m,
\* delete(c, ..) on the map of c, delete(c[k], ..) on the sets of the keys
\* that stay.  No write adds a key to c.
Store(heap, h, new) ==
    LET outer == heap[h.c]
        sets == { outer[k] : k \in DOMAIN new.c }
    IN  [a \in DOMAIN heap |->
           IF a = h.m THEN new.m
           ELSE IF a = h.c THEN [k \in DOMAIN new.c |-> outer[k]]
           ELSE IF a \in sets
                THEN new.c[CHOOSE k \in DOMAIN new.c : outer[k] = a]
                ELSE heap[a]]

\* The equations a write through a handle can leave, seen through it:
\* SetPair and SolveUnique with any names, and the deletions of
\* TestEquationDup, of a key of c, of a candidate of a key, of a key of m.
Writes(v) ==
    { r.eq : r \in UNION { SetPair(v, s, g) : s \in Names, g \in Names } }
    \cup { r.eq : r \in SolveUnique(v) }
    \cup { [v EXCEPT !.c = Delete(v.c, k)] : k \in DOMAIN v.c }
    \cup { [v EXCEPT !.c[k] = @ \ {g}] : k \in DOMAIN v.c, g \in Names }
    \cup { [v EXCEPT !.m = Delete(v.m, k)] : k \in DOMAIN v.m }

\* dup := eq.Dup()
CallDup ==
    /\ HasEquation
    /\ LET a == Alloc(eq)
           d == DupMaps(a.heap, a.h)
       IN  mem' = [heap |-> d.heap, orig |-> a.h, copy |-> d.h,
                   snap |-> eq, side |-> "none", n |-> 0]
    /\ op' = "Dup"
    /\ UNCHANGED << graph, sub, entry, ret, ret2, old, idx, found, labels, err,
                   cand, eq, step, walk, drv, rec >>

\* A write on the copy, the original not having been written.
WriteCopy ==
    /\ op = "Dup"
    /\ mem.side \in {"none", "copy"}
    /\ mem.n < MaxWrites
    /\ \E new \in Writes(View(mem.heap, mem.copy)) :
         mem' = [mem EXCEPT !.heap = Store(mem.heap, mem.copy, new),
                            !.side = "copy", !.n = @ + 1]
    /\ UNCHANGED << graph, sub, op, entry, ret, ret2, old, idx, found, labels, err,
                   cand, eq, step, walk, drv, rec >>

\* A write on the original, the copy not having been written.
WriteOriginal ==
    /\ op = "Dup"
    /\ mem.side \in {"none", "orig"}
    /\ mem.n < MaxWrites
    /\ \E new \in Writes(View(mem.heap, mem.orig)) :
         /\ mem' = [mem EXCEPT !.heap = Store(mem.heap, mem.orig, new),
                               !.side = "orig", !.n = @ + 1]
         /\ eq' = View(mem'.heap, mem.orig)
    /\ UNCHANGED << graph, sub, op, entry, ret, ret2, old, idx, found, labels, err,
                   cand, step, walk, drv, rec >>

NextDup == CallCandidates \/ StepSolveUnique \/ CallDup \/ WriteCopy \/ WriteOriginal

SpecDup == InitEq /\ [][NextDup]_vars

\* ------------------------------------- the recursive matcher, pair by pair

\* graphs.Isomorphism up to the nested loops of its call of isIsomorphism on
\* the two entries: the lookups, the binding of the entry (m is empty, which
\* is not the node count) and then the test of the successor counts (the
\* entry is not the exit), which leaves the entry bound when it fails.
MatchBegin ==
    /\ op = "idle"
    /\ \E e \in Names :
         /\ entry' = e
         /\ IF ~Lookup(graph, e) \/ ~Lookup(sub, sub.entry)
            THEN /\ rec' = [NoRec EXCEPT !.pc = "done"]
                 /\ old' = NilMap
            ELSE IF Len(Succs(sub, sub.entry)) # Len(Succs(graph, e))
            THEN /\ rec' = [NoRec EXCEPT !.pc = "done",
                                         !.m = Put(EmptyMap, sub.entry, e)]
                 /\ old' = NilMap
            ELSE /\ rec' = [NoRec EXCEPT !.pc = "loop",
                                         !.m = Put(EmptyMap, sub.entry, e),
                                         !.pairs = SuccPairs(graph, sub, e, sub.entry),
                                         !.i = 1]
                 /\ old' = old
    /\ op' = "Match"
    /\ UNCHANGED << graph, sub, ret, ret2, idx, found, labels, err,
                   cand, eq, step, walk, drv, mem >>

\* One pass of the nested loops for the next successor pair.
MatchTry ==
    /\ op = "Match"
    /\ rec.pc = "loop"
    /\ rec.i <= Len(rec.pairs)
    /\ LET t == tryPair(graph, sub, rec.pairs[rec.i], rec.m, rec.visited)
       IN  /\ rec' = [pc |-> IF t.ok THEN "done" ELSE "loop",
                      m |-> t.m, visited |-> t.visited, pairs |-> rec.pairs,
                      i |-> rec.i + 1, before |-> rec.m, ok |-> t.ok,
                      skipped |-> t.skipped]
           /\ old' = IF t.ok THEN [ok |-> TRUE, m |-> t.m] ELSE old
    /\ UNCHANGED << graph, sub, op, entry, ret, ret2, idx, found, labels, err,
                   cand, eq, step, walk, drv, mem >>

\* After the loops: the validation of m, and the return of Isomorphism.
MatchEnd ==
    /\ op = "Match"
    /\ rec.pc = "loop"
    /\ rec.i > Len(rec.pairs)
    /\ rec' = [rec EXCEPT !.pc = "done"]
    /\ old' = IF isMatch(graph, sub, rec.m)
              THEN [ok |-> TRUE, m |-> rec.m] ELSE NilMap
    /\ UNCHANGED << graph, sub, op, entry, ret, ret2, idx, found, labels, err,
                   cand, eq, step, walk, drv, mem >>

NextMatch == MatchBegin \/ MatchTry \/ MatchEnd

SpecMatch == InitEq /\ [][NextMatch]_vars

\* --------------------------------------------------------- Candidates alone

\* TestCandidates on larger hosts: Candidates is called once.
InitCand ==
    /\ graph \in GraphsUpTo(MaxHostEdges)
    /\ sub \in SubGraphsUpTo(MaxEqEdges)
    /\ op = "idle"
    /\ entry = 0
    /\ ret = NilMap
    /\ ret2 = NilMap
    /\ old = NilMap
    /\ idx = 0
    /\ found = NilMap
    /\ labels = << >>
    /\ err = "nil"
    /\ cand = NoCandidates
    /\ eq = NoEquation
    /\ step = NoStep
    /\ walk = NoWalk
    /\ drv = NoDrive
    /\ mem = NoMem
    /\ rec = NoRec

NextCand == CallCandidates

SpecCand == InitCand /\ [][NextCand]_vars

\* ------------------------------------------- the validator, repeated edges

\* Every graph G with at most d of its edges held twice.
Doubled(G, d) ==
    { [n |-> G.n, E |-> G.E, par |-> P] :
        P \in { X \in SUBSET G.E : Cardinality(X) <= d } }

\* Every subgraph S with at most d of its edges held twice.
DoubledSub(S, d) ==
    { [n |-> S.n, E |-> S.E, par |-> P, entry |-> S.entry, exit |-> S.exit] :
        P \in { X \in SUBSET S.E : Cardinality(X) <= d } }

\* The graphs and subgraphs of a DOT file that may name an edge twice.
InitMulti ==
    /\ graph \in UNION { Doubled(G, MaxDoubled) : G \in GraphsUpTo(MaxHostEdges) }
    /\ sub \in UNION { DoubledSub(S, MaxDoubled) : S \in SubGraphsUpTo(MaxMultiEdges) }
    /\ op = "idle"
    /\ entry = 0
    /\ ret = NilMap
    /\ ret2 = NilMap
    /\ old = NilMap
    /\ idx = 0
    /\ found = NilMap
    /\ labels = << >>
    /\ err = "nil"
    /\ cand = NoCandidates
    /\ eq = NoEquation
    /\ step = NoStep
    /\ walk = NoWalk
    /\ drv = NoDrive
    /\ mem = NoMem
    /\ rec = NoRec

NextMulti == CallIsValid

SpecMulti == InitMulti /\ [][NextMulti]_vars

\* ----------------------------------------- the two matchers on larger hosts

\* iso.Isomorphism and then graphs.Isomorphism on the same arguments, the
\* subgraph small and the host up to MaxMatchEdges edges.
InitBoth ==
    /\ graph \in GraphsUpTo(MaxMatchEdges)
    /\ sub \in SubGraphsUpTo(MaxEqEdges)
    /\ op = "idle"
    /\ entry = 0
    /\ ret = NilMap
    /\ ret2 = NilMap
    /\ old = NilMap
    /\ idx = 0
    /\ found = NilMap
    /\ labels = << >>
    /\ err = "nil"
    /\ cand = NoCandidates
    /\ eq = NoEquation
    /\ step = NoStep
    /\ walk = NoWalk
    /\ drv = NoDrive
    /\ mem = NoMem
    /\ rec = NoRec

NextBoth == CallIsomorphism \/ CallGraphsIsomorphism

SpecBoth == InitBoth /\ [][NextBoth]_vars

\* ------------------------------------------------------------------ claims

\* Every total mapping of the nodes of S to nodes of G.
Mappings(G, S) == [Nodes(S) -> Nodes(G)]

\* The sub nodes a walk along successor edges reaches from the entry.
RECURSIVE ReachFrom(_, _)
ReachFrom(S, R) ==
    LET R1 == R \cup { v \in Nodes(S) : \E u \in R : << u, v >> \in S.E }
    IN  IF R1 = R THEN R ELSE ReachFrom(S, R1)

Connected(S) == ReachFrom(S, {S.entry}) = Nodes(S)

\* The mappings iso.Isomorphism can return with ok on the given arguments.
IsoMappings(G, e, S) == { r.m : r \in { x \in Isomorphism(G, e, S) : x.ok } }

\* The identity mapping on the nodes of S.
Identity(S) == [s \in Nodes(S) |-> s]

\* iso.Isomorphism was called on the subgraph itself with its own entry.
SelfMatch ==
    /\ op = "Isomorphism"
    /\ graph = [n |-> sub.n, E |-> sub.E]
    /\ entry = sub.entry

\* The adjacency of a node as a set.
SuccSet(G, u) == { v \in Nodes(G) : << u, v >> \in G.E }
PredSet(G, v) == { u \in Nodes(G) : << u, v >> \in G.E }

\* The restricted-isomorphism contract of a known map M, stated on the graphs.
Contract(G, S, M) ==
    /\ Cardinality(DOMAIN M) = S.n
    /\ \A a, b \in DOMAIN M : a # b => M[a] # M[b]
    /\ \A s \in DOMAIN M : s \in Nodes(S) /\ M[s] \in Nodes(G)
    /\ \A s \in DOMAIN M : s # S.entry =>
          /\ Cardinality(PredSet(S, s)) = Cardinality(PredSet(G, M[s]))
          /\ \A p \in PredSet(S, s) : p \in DOMAIN M /\ M[p] \in PredSet(G, M[s])
    /\ \A s \in DOMAIN M : s # S.exit =>
          /\ Cardinality(SuccSet(S, s)) = Cardinality(SuccSet(G, M[s]))
          /\ \A q \in SuccSet(S, s) : q \in DOMAIN M /\ M[q] \in SuccSet(G, M[s])

\* The host nodes at which graphs.Isomorphism succeeds.
Matching(G, S) == { g \in Nodes(G) : GraphsIsomorphism(G, g, S).ok }

\* How many nodes carry the label l.
CountLabel(l) == Cardinality({ k \in 1 .. Len(labels) : labels[k] = l })

\* C1 as claimed: iso.Isomorphism returns ok exactly when the validator accepts
\* some mapping of all sub nodes that sends the sub entry to the entry name,
\* and returns the nil map when it does not.
C1_Original ==
    op = "Isomorphism" =>
        /\ ret.ok <=> \E M \in Mappings(graph, sub) :
                          M[sub.entry] = entry /\ IsValid(graph, sub, M)
        /\ ~ret.ok => ret.m = EmptyMap

\* C1 for subgraphs whose every node the entry reaches along successor edges:
\* iso.Isomorphism returns ok exactly when the validator accepts some mapping
\* of all sub nodes that sends the sub entry to the entry name, and returns the
\* nil map when it does not.
C1_Connected ==
    (op = "Isomorphism" /\ Connected(sub)) =>
        /\ ret.ok <=> \E M \in Mappings(graph, sub) :
                          M[sub.entry] = entry /\ IsValid(graph, sub, M)
        /\ ~ret.ok => ret.m = EmptyMap

\* C1, witness: a call on a three-node subgraph that the entry reaches, on a
\* host that is not the subgraph, returned a mapping.
C1_Witness ==
    /\ op = "Isomorphism"
    /\ Connected(sub)
    /\ sub.n = 3
    /\ graph.E # sub.E
    /\ ret.ok
    /\ Cardinality(DOMAIN ret.m) = 3

\* C2: a mapping the equation solver reports as found, on an equation that
\* Candidates produced for the same host and subgraph, is accepted by IsValid
\* and meets the contract IsValid stands for.  The first Solve accepts with
\* valid, which compares no lengths and looks for no host node taken twice:
\* there the statement rests on the candidates being potential pairs and on
\* the unique pairs never taking a host node twice.  The later solvers accept
\* with IsSolved.
C2_SolverSound ==
    /\ (op = "GraphsSolve" /\ ret.ok) =>
          /\ IsValid(graph, sub, ret.m)
          /\ Contract(graph, sub, ret.m)
    /\ (op = "Isomorphism" /\ ret.ok) =>
          /\ IsValid(graph, sub, ret.m)
          /\ Contract(graph, sub, ret.m)
    /\ op \in {"Solve", "SolveReturned"} =>
          /\ drv.last.ok =>
                /\ IsValid(graph, sub, drv.last.m)
                /\ Contract(graph, sub, drv.last.m)
          /\ \A p \in DOMAIN drv.procs :
                (drv.procs[p].pc = "send" /\ drv.procs[p].val.ok) =>
                    /\ IsValid(graph, sub, drv.procs[p].val.m)
                    /\ Contract(graph, sub, drv.procs[p].val.m)

\* C2, witness: the first Solve has returned a mapping of a three-node
\* subgraph into a host other than the subgraph.
C2_Witness ==
    /\ op = "GraphsSolve"
    /\ ret.ok
    /\ Cardinality(DOMAIN ret.m) = 3
    /\ graph.E # sub.E

\* C3: IsValid returns true exactly when the map has one entry per sub node,
\* no host node taken twice, only keys and values that name nodes, and, for
\* every pair but the entry's, equal predecessor counts with every predecessor
\* mapped onto a predecessor, and, for every pair but the exit's, the same for
\* successors.
C3_IsValidIff ==
    op = "IsValid" => (ret.ok <=> Contract(graph, sub, ret.m))

\* C3, witness: IsValid accepted a map of a three-node subgraph with edges
\* that is not the identity.
C3_Witness ==
    /\ op = "IsValid"
    /\ ret.ok
    /\ sub.n = 3
    /\ Cardinality(sub.E) = 2
    /\ ret.m # Identity(sub)

\* C4: a map IsValid accepts is one-to-one on the sub nodes and carries every
\* sub edge u -> v with u not the exit or v not the entry onto a host edge.
C4_EdgesPreserved ==
    (op = "IsValid" /\ ret.ok) =>
        /\ DOMAIN ret.m = Nodes(sub)
        /\ \A a, b \in Nodes(sub) : a # b => ret.m[a] # ret.m[b]
        /\ \A e \in sub.E :
              (e[1] # sub.exit \/ e[2] # sub.entry) =>
                  << ret.m[e[1]], ret.m[e[2]] >> \in graph.E

\* C4, witness: IsValid accepted a map under which an edge from the exit to
\* the entry has no host edge while the other sub edge has one.
C4_Witness ==
    /\ op = "IsValid"
    /\ ret.ok
    /\ << sub.exit, sub.entry >> \in sub.E
    /\ << ret.m[sub.exit], ret.m[sub.entry] >> \notin graph.E
    /\ \E e \in sub.E : e # << sub.exit, sub.entry >>

\* C5 as claimed: graphs.Isomorphism succeeds exactly when iso.Isomorphism
\* does, and the mapping it returns is one iso.Isomorphism can return, and the
\* other way round.
C5_Original ==
    op = "GraphsIsomorphism" =>
        /\ old.ok <=> ret.ok
        /\ old.ok => old.m \in IsoMappings(graph, entry, sub)
        /\ ret.ok => IsoMappings(graph, entry, sub) = {old.m}

\* C6 as claimed: a mapping graphs.Isomorphism returns with ok is accepted by
\* IsValid: one key per sub node, no host node taken twice.
C6_Original ==
    (op = "GraphsIsomorphism" /\ old.ok) =>
        /\ IsValid(graph, sub, old.m)
        /\ Cardinality(DOMAIN old.m) = sub.n
        /\ ~hasDup(old.m)

\* C7: graphs.Search returns what graphs.Isomorphism returns at the first
\* host node, in the order of the node list, at which it succeeds, and
\* (nil, false) exactly when it succeeds at none.
C7_FirstMatch ==
    op = "SearchDone" =>
        /\ found.ok <=> Matching(graph, sub) # {}
        /\ ~found.ok => found = NilMap
        /\ found.ok =>
              LET first == CHOOSE g \in Matching(graph, sub) :
                               \A h \in Matching(graph, sub) : g <= h
              IN  found = GraphsIsomorphism(graph, first, sub)

\* C7, witness: Search returned a match found at the second host node while
\* the third node matches too.
C7_Witness ==
    /\ op = "SearchDone"
    /\ found.ok
    /\ Matching(graph, sub) = {2, 3}
    /\ found = GraphsIsomorphism(graph, 2, sub)
    /\ found # GraphsIsomorphism(graph, 3, sub)

\* C8 as claimed: two calls of iso.Isomorphism on the same arguments return
\* the same ok and the same mapping.
C8_Original ==
    op = "IsomorphismAgain" => ret2 = ret

\* C9 as claimed: on the subgraph itself with its own entry, iso.Isomorphism
\* succeeds, can return the identity mapping, and IsValid accepts it.
C9_Original ==
    SelfMatch =>
        /\ ret.ok
        /\ Identity(sub) \in IsoMappings(graph, entry, sub)
        /\ IsValid(graph, sub, Identity(sub))

\* C9 for subgraphs whose every node the entry reaches along successor edges:
\* on the subgraph itself with its own entry, iso.Isomorphism succeeds, can
\* return the identity mapping, and IsValid accepts it.
C9_Connected ==
    (SelfMatch /\ Connected(sub)) =>
        /\ ret.ok
        /\ Identity(sub) \in IsoMappings(graph, entry, sub)
        /\ IsValid(graph, sub, Identity(sub))

\* C9, witness: a self-match of a three-node subgraph with a branch returned
\* the identity.
C9_Witness ==
    /\ SelfMatch
    /\ Connected(sub)
    /\ sub.n = 3
    /\ Cardinality(sub.E) = 3
    /\ ret.ok
    /\ ret.m = Identity(sub)

\* C10 as claimed: NewSubGraph succeeds exactly when one node is labelled
\* entry and one exit, Entry() and Exit() then name them; a second node with
\* one of the labels gives a redefinition error, a label no node carries
\* gives a missing-label error, and no subgraph is returned with an error.
C10_Original ==
    op = "NewSubGraph" =>
        /\ err = "nil" <=> (CountLabel("entry") = 1 /\ CountLabel("exit") = 1)
        /\ err = "nil" =>
              /\ labels[Entry(sub)] = "entry"
              /\ labels[Exit(sub)] = "exit"
        /\ (CountLabel("entry") > 1 \/ CountLabel("exit") > 1) =>
              err \in {"RedefEntry", "RedefExit"}
        /\ (CountLabel("entry") = 0 \/ CountLabel("exit") = 0) =>
              err \in {"NoEntry", "NoExit"}
        /\ err # "nil" => sub = NoSubGraph

\* C10 with the order of the two errors: NewSubGraph succeeds exactly when one
\* node is labelled entry and one exit, Entry() and Exit() then name them; a
\* second node with one of the labels gives a redefinition error; a label no
\* node carries gives a missing-label error when no label is carried twice;
\* no subgraph is returned with an error.
C10_RedefinitionFirst ==
    op = "NewSubGraph" =>
        /\ err = "nil" <=> (CountLabel("entry") = 1 /\ CountLabel("exit") = 1)
        /\ err = "nil" =>
              /\ labels[Entry(sub)] = "entry"
              /\ labels[Exit(sub)] = "exit"
              /\ sub.n = graph.n /\ sub.E = graph.E
        /\ (CountLabel("entry") > 1 \/ CountLabel("exit") > 1) =>
              err \in {"RedefEntry", "RedefExit"}
        /\ (CountLabel("entry") > 1 /\ CountLabel("exit") <= 1) => err = "RedefEntry"
        /\ (CountLabel("exit") > 1 /\ CountLabel("entry") <= 1) => err = "RedefExit"
        /\ ( /\ CountLabel("entry") <= 1 /\ CountLabel("exit") <= 1
             /\ (CountLabel("entry") = 0 \/ CountLabel("exit") = 0) ) =>
              err \in {"NoEntry", "NoExit"}
        /\ err # "nil" => sub = NoSubGraph

\* C10, witness: a graph with two entry nodes and no exit node got the
\* redefinition error.
C10_Witness ==
    /\ op = "NewSubGraph"
    /\ CountLabel("entry") = 2
    /\ CountLabel("exit") = 0
    /\ err = "RedefEntry"
    /\ sub = NoSubGraph

\* ------------------------------------------------------------ Candidates

\* The number of successors and of predecessors of node u of G, counted on
\* the edge set.
OutDegree(G, u) == Cardinality({ e \in G.E : e[1] = u })
InDegree(G, u) == Cardinality({ e \in G.E : e[2] = u })

\* C11: Candidates returns the entry-mismatch error exactly when the host has
\* a node named entry and that node has another number of successors than the
\* entry of the subgraph (whose entry is never its exit); the two counts the
\* error prints are these two numbers, so they differ; the numbers of
\* predecessors play no part.
C11_EntryMismatch ==
    op = "Candidates" =>
        /\ cand.err = "EntryMismatch" <=>
              /\ entry \in 1 .. graph.n
              /\ sub.entry # sub.exit
              /\ OutDegree(graph, entry) # OutDegree(sub, sub.entry)
        /\ cand.err = "EntryMismatch" =>
              /\ cand.expected = OutDegree(sub, sub.entry)
              /\ cand.got = OutDegree(graph, entry)
              /\ cand.expected # cand.got

\* C11, witness: the error is returned for an entry with one successor against
\* a subgraph entry with two, the two entries having as many predecessors.
C11_Witness ==
    /\ op = "Candidates"
    /\ cand.err = "EntryMismatch"
    /\ cand.expected = 2
    /\ cand.got = 1
    /\ InDegree(graph, entry) = InDegree(sub, sub.entry)

\* The claims' reading of a potential pair, on the degrees of the two nodes.
Potential(G, S, g, s) ==
    /\ s # S.entry => InDegree(G, g) = InDegree(S, s)
    /\ s # S.exit => OutDegree(G, g) = OutDegree(S, s)

RECURSIVE LockStepFrom(_, _, _)
\* The pairs << s, g >> a lock-step walk over successor edges reaches from the
\* pairs of R, every pair it steps to being potential.
LockStepFrom(G, S, R) ==
    LET next == R \cup { p \in Nodes(S) \X Nodes(G) :
                           /\ Potential(G, S, p[2], p[1])
                           /\ \E q \in R : /\ << q[1], p[1] >> \in S.E
                                           /\ << q[2], p[2] >> \in G.E }
    IN  IF next = R THEN R ELSE LockStepFrom(G, S, next)

\* The host nodes the lock-step walk from (sub entry, e) pairs with s.
LockStep(G, S, e, s) ==
    { g \in Nodes(G) : << s, g >> \in LockStepFrom(G, S, { << S.entry, e >> }) }

RECURSIVE EntryOnceFrom(_, _, _)
\* The same walk when it never steps to the subgraph entry again.
EntryOnceFrom(G, S, R) ==
    LET next == R \cup { p \in Nodes(S) \X Nodes(G) :
                           /\ p[1] # S.entry
                           /\ Potential(G, S, p[2], p[1])
                           /\ \E q \in R : /\ << q[1], p[1] >> \in S.E
                                           /\ << q[2], p[2] >> \in G.E }
    IN  IF next = R THEN R ELSE EntryOnceFrom(G, S, next)

\* The host nodes that walk from (sub entry, e) pairs with s.
EntryOnce(G, S, e, s) ==
    { g \in Nodes(G) : << s, g >> \in EntryOnceFrom(G, S, { << S.entry, e >> }) }

\* C12: Candidates returns the incomplete-candidates error, and no equation,
\* exactly when the entry pair is potential and the walk from it leaves a
\* subgraph node without candidate; the counts of the error are the number of
\* subgraph nodes and the number of keys, which differ.  When it returns an
\* equation every subgraph node is a key of c with a non-empty set and m is
\* empty.
C12_Incomplete ==
    op = "Candidates" =>
        /\ cand.err = "IncompleteCandidates" <=>
              /\ entry \in 1 .. graph.n
              /\ Potential(graph, sub, entry, sub.entry)
              /\ \E s \in Nodes(sub) : EntryOnce(graph, sub, entry, s) = {}
        /\ cand.err = "IncompleteCandidates" =>
              /\ cand.eq = NoEquation
              /\ cand.expected = sub.n
              /\ cand.got =
                    Cardinality({ s \in Nodes(sub) :
                                    EntryOnce(graph, sub, entry, s) # {} })
              /\ cand.got # cand.expected
        /\ cand.err = "nil" =>
              /\ DOMAIN eq.c = Nodes(sub)
              /\ \A s \in Nodes(sub) : eq.c[s] # {}
              /\ eq.m = EmptyMap

\* C12, witness: the error for a subgraph of three nodes of which the walk
\* reached one.
C12_Witness ==
    /\ op = "Candidates"
    /\ sub.n = 3
    /\ cand.err = "IncompleteCandidates"
    /\ cand.expected = 3
    /\ cand.got = 1

\* ------------------------------------------------------------ the equation

\* C13 as claimed: no operation ends in a panic; Solve, on an equation of
\* Candidates where no key has a single candidate while c is not empty,
\* returns a mapping or an error.
C13_Original ==
    (op \in {"Solve", "SolveFirst"} /\ step = NoStep) => err # "panic"

\* C14: whatever calls of SetPair and SolveUnique were made on an equation of
\* Candidates, with or without error, and in every copy Dup made for a
\* branch, m maps no two subgraph nodes to the same host node.
C14_Injective ==
    \A s1 \in DOMAIN eq.m, s2 \in DOMAIN eq.m :
        eq.m[s1] = eq.m[s2] => s1 = s2

\* C14, witness: m holds two pairs and the last call, a SetPair towards a
\* host node m already holds, returned the duplicate-target error.
C14_Witness ==
    /\ op = "step"
    /\ step.call = "SetPair"
    /\ step.err = "DuplicateTarget"
    /\ step.s \notin DOMAIN eq.m
    /\ Cardinality(DOMAIN eq.m) = 2

\* C15: while an equation of Candidates is being solved (SolveUnique, the
\* branch on a copy, Solve), the keys of c and of m are disjoint and together
\* are the nodes of the subgraph after every step; where the solver reports
\* success c is empty and the keys of m are the nodes of the subgraph.
C15_Partition ==
    (cand.err = "nil" /\ op \in {"Candidates", "step", "Solve", "SolveFirst"}
        /\ step.free = 0) =>
        /\ DOMAIN eq.c \cap DOMAIN eq.m = {}
        /\ DOMAIN eq.c \cup DOMAIN eq.m = Nodes(sub)
        /\ (IsSolved(graph, sub, eq) \/ (op \in {"Solve", "SolveFirst"} /\ err = "nil")) =>
              /\ DOMAIN eq.c = {}
              /\ DOMAIN eq.m = Nodes(sub)

\* C15, witness: an equation on a subgraph of three nodes is solved after a
\* branch followed by unique pairs.
C15_Witness ==
    /\ op = "step"
    /\ step.free = 0
    /\ step.call = "SolveUnique"
    /\ step.ok
    /\ sub.n = 3
    /\ \E s \in Nodes(sub) : Cardinality(cand.eq.c[s]) = 2
    /\ IsSolved(graph, sub, eq)

\* C16 as claimed: on success the entry has the single candidate entryName
\* and every other subgraph node has exactly the host nodes the lock-step
\* walk of potential pairs reaches.
C16_Original ==
    (op = "Candidates" /\ cand.err = "nil") =>
        /\ eq.c[sub.entry] = {entry}
        /\ \A s \in Nodes(sub) \ {sub.entry} :
               eq.c[s] = LockStep(graph, sub, entry, s)

\* C16: on success every subgraph node has exactly the host nodes reached by
\* a lock-step walk of potential pairs that starts at (sub entry, entryName)
\* and never steps to the subgraph entry again; so the entry has the single
\* candidate entryName and no recorded pair fails the potential test.
C16_EntryOnce ==
    (op = "Candidates" /\ cand.err = "nil") =>
        /\ eq.c[sub.entry] = {entry}
        /\ \A s \in Nodes(sub) : eq.c[s] = EntryOnce(graph, sub, entry, s)
        /\ \A s \in Nodes(sub) : \A g \in eq.c[s] :
               Potential(graph, sub, g, s)

\* C16, witness: Candidates succeeded on a subgraph with an edge back into
\* its entry, where a walk through the entry reaches a host node that is no
\* candidate.
C16_Witness ==
    /\ op = "Candidates"
    /\ cand.err = "nil"
    /\ \E s \in Nodes(sub) :
          /\ << s, sub.entry >> \in sub.E
          /\ s # sub.entry
    /\ \E s \in Nodes(sub) \ {sub.entry} :
          eq.c[s] # LockStep(graph, sub, entry, s)

\* The number of pairs in a candidate table.
PairCount(c) == Cardinality({ p \in (DOMAIN c) \X Names : p[2] \in c[p[1]] })

\* C17 of the last copy of findCandidates, where the claim holds: the walk
\* ends: every call that does not return at once
\* records a pair that was not in c, so no pair is expanded twice and there
\* are at most |nodes(sub)| * |nodes(host)| expansions, each followed by at
\* most that many calls; a revisited entry pair is never recorded; and the
\* table the walk ends with is the one Candidates builds.
C17_WalkEnds ==
    /\ op = "findCandidates" =>
          /\ walk.n = PairCount(walk.c)
          /\ walk.n <= sub.n * graph.n
          /\ walk.calls <= 1 + walk.n * sub.n * graph.n
          /\ Len(walk.stack) + walk.calls <= 1 + walk.n * sub.n * graph.n
          /\ sub.entry \in DOMAIN walk.c => walk.c[sub.entry] = {entry}
    /\ (op = "Candidates" /\ walk # NoWalk) =>
          /\ walk.stack = << >>
          /\ walk.c = findCandidates(graph, sub, EmptyMap, entry, sub.entry)

\* C17, the case: the walk of the last copy ended, with an equation, on a
\* subgraph with a self-edge on its entry, after calls that recorded nothing,
\* one of them on the revisited entry.
C17_WalkEndsCase ==
    /\ op = "Candidates"
    /\ cand.err = "nil"
    /\ << sub.entry, sub.entry >> \in sub.E
    /\ walk.stack = << >>
    /\ walk.n >= 2
    /\ walk.calls >= walk.n + 2

\* C17 as claimed, of both copies of findCandidates: the walk ends.  The walk
\* of the last copy ends as C17_WalkEnds says; in the walk of the first copy
\* no call is made on a pair and a table on which a call is still running,
\* a call that would make the same calls again, itself included, without end.
C17_Original ==
    /\ C17_WalkEnds
    /\ op = "findCandidatesOld" =>
          \A i \in 1 .. Len(walk.running), j \in 1 .. Len(walk.running) :
              walk.running[i] = walk.running[j] => i = j

\* C18 as claimed: the loop of solve does not try the same branch point
\* again: after a branch round on an equation the goroutine has sent its
\* result and returned, or goes on with another equation.
C18_Original ==
    (op = "Solve" /\ Root \in DOMAIN drv.procs) => drv.procs[Root].round <= 1

\* C19: a SetPair(s, g) that returns no error, called from outside or on the
\* copy of a branch, leaves m with s mapped to g and every other pair as it
\* was, c without the key s, and every remaining key of c with its
\* candidates but g.
C19_SetPairFrame ==
    (op = "step" /\ step.call \in {"SetPair", "Branch"} /\ step.err = "nil") =>
        /\ DOMAIN eq.m = DOMAIN step.pre.m \cup {step.s}
        /\ eq.m[step.s] = step.g
        /\ \A k \in DOMAIN step.pre.m \ {step.s} : eq.m[k] = step.pre.m[k]
        /\ DOMAIN eq.c = DOMAIN step.pre.c \ {step.s}
        /\ \A k \in DOMAIN eq.c : eq.c[k] = step.pre.c[k] \ {step.g}

\* C19, witness: a SetPair without error on an equation whose m held a pair,
\* which took g from another key that keeps a candidate.
C19_Witness ==
    /\ op = "step"
    /\ step.call = "SetPair"
    /\ step.err = "nil"
    /\ step.s \in DOMAIN step.pre.c
    /\ DOMAIN step.pre.m # {}
    /\ \E k \in DOMAIN eq.c : /\ step.g \in step.pre.c[k]
                              /\ eq.c[k] # {}

\* The calls of SetPair, under one name for each copy of the function in the
\* source.
SetPairCalls == {"SetPair", "SetPairOld", "SetPairContains"}

\* The duplicate-target error as C20 describes it, for the calls of SetPair
\* made under the names of calls: the error is returned exactly when g is a
\* value of m; it then names the subgraph node that m maps to g, together
\* with s, and c and m are as they were before the call.
DuplicateTargetIn(calls) ==
    (op = "step" /\ step.call \in calls) =>
        /\ step.err = "DuplicateTarget" <=>
              \E k \in DOMAIN step.pre.m : step.pre.m[k] = step.g
        /\ step.err = "DuplicateTarget" =>
              /\ step.key \in DOMAIN step.pre.m
              /\ step.pre.m[step.key] = step.g
              /\ eq = step.pre

\* C20 as claimed, of every copy of SetPair: the duplicate-target error is
\* returned exactly when g is a value of m, names the subgraph node that
\* already maps to g, together with s, and leaves c and m as they were.
C20_Original == DuplicateTargetIn(SetPairCalls)

\* C20 of the copy of SetPair that tests with getKey, which names the key
\* getKey returns: there the claim holds.
C20_GetKeyCopy == DuplicateTargetIn({"SetPair"})

\* C20, the case: the error of the copy with getKey for a host node that
\* another subgraph node holds, on an equation with candidates left.
C20_GetKeyCopyCase ==
    /\ op = "step"
    /\ step.call = "SetPair"
    /\ step.err = "DuplicateTarget"
    /\ step.key # step.s
    /\ DOMAIN eq.c # {}
    /\ step.s \in DOMAIN eq.c

\* The no-candidates error as C21 describes it, for the calls of SetPair made
\* under the names of calls: once past the duplicate-target test (g is no
\* value of m, so that g is taken away), SetPair(s, g) returns the error
\* exactly when taking g away leaves a key of c other than s without
\* candidates, and the error names such a key, whose set is then empty; so a
\* SetPair without error on an equation whose sets were all non-empty leaves
\* every remaining set non-empty.
NoCandidatesIn(calls) ==
    (op = "step" /\ step.call \in calls) =>
        /\ step.err = "NoCandidates" <=>
              /\ \A k \in DOMAIN step.pre.m : step.pre.m[k] # step.g
              /\ \E k \in DOMAIN step.pre.c \ {step.s} :
                    step.pre.c[k] \ {step.g} = {}
        /\ step.err = "NoCandidates" =>
              /\ step.key \in DOMAIN step.pre.c \ {step.s}
              /\ step.pre.c[step.key] \ {step.g} = {}
              /\ eq.c[step.key] = {}
        /\ (step.err = "nil" /\ \A k \in DOMAIN step.pre.c : step.pre.c[k] # {}) =>
              \A k \in DOMAIN eq.c : eq.c[k] # {}

\* C21 as claimed, of every copy of SetPair: the no-candidates error is
\* returned, naming the key, whenever taking g away leaves another key of c
\* without candidates, so that no SetPair without error leaves an empty set
\* behind where there was none.
C21_Original == NoCandidatesIn(SetPairCalls)

\* C21 of the two copies of SetPair whose loop tests what is left of each
\* set: there the claim holds.
C21_TestingCopies == NoCandidatesIn({"SetPair", "SetPairContains"})

\* C21, the case: the error of the copy with getKey names a key other than s
\* whose only candidate was g.
C21_TestingCopiesCase ==
    /\ op = "step"
    /\ step.call = "SetPair"
    /\ step.err = "NoCandidates"
    /\ step.key # step.s
    /\ step.pre.c[step.key] = {step.g}
    /\ step.s \in DOMAIN step.pre.c

\* The keys of c with exactly one candidate.
UniqueKeys(c) == { k \in DOMAIN c : Cardinality(c[k]) = 1 }

\* C22: SolveUnique, when no key of c has exactly one candidate, returns
\* false without error and leaves c and m as they were; otherwise it calls
\* SetPair on one such key and its candidate: it returns true when SetPair
\* returns no error, and then exactly that key has gone from c to m, and it
\* returns false with SetPair's error otherwise.
C22_SolveUnique ==
    (op = "step" /\ step.call = "SolveUnique") =>
        LET uniq == UniqueKeys(step.pre.c)
        IN  /\ uniq = {} =>
                  /\ ~step.ok
                  /\ step.err = "nil"
                  /\ eq = step.pre
            /\ uniq # {} =>
                  /\ step.ok <=> step.err = "nil"
                  /\ step.err \in {"nil", "DuplicateTarget", "NoCandidates"}
                  /\ step.ok =>
                        \E k \in uniq : \E g \in step.pre.c[k] :
                            /\ DOMAIN eq.m = DOMAIN step.pre.m \cup {k}
                            /\ eq.m[k] = g
                            /\ \A j \in DOMAIN step.pre.m : eq.m[j] = step.pre.m[j]
                            /\ DOMAIN eq.c = DOMAIN step.pre.c \ {k}
                            /\ \A j \in DOMAIN eq.c : eq.c[j] = step.pre.c[j] \ {g}

\* C22, witness: SolveUnique returned true on an equation where two keys
\* had a single candidate and m held a pair.
C22_Witness ==
    /\ op = "step"
    /\ step.call = "SolveUnique"
    /\ step.ok
    /\ Cardinality(UniqueKeys(step.pre.c)) >= 2
    /\ DOMAIN step.pre.m # {}

\* C23: the equation Dup returns equals the original, and whatever is then
\* written on one of the two (SetPair, SolveUnique, deletion of a key of c,
\* of a candidate inside a set, of a key of m), the other still is the
\* equation Dup was called on.
C23_DupIndependent ==
    op = "Dup" =>
        /\ mem.side = "none" =>
              /\ View(mem.heap, mem.copy) = mem.snap
              /\ View(mem.heap, mem.orig) = mem.snap
        /\ mem.side = "copy" => View(mem.heap, mem.orig) = mem.snap
        /\ mem.side = "orig" => View(mem.heap, mem.copy) = mem.snap

\* C23, witness: a write was made on the copy of an equation that held
\* pairs in m and candidates in c, and the copy has lost a candidate inside
\* a set of a key it kept.
C23_Witness ==
    /\ op = "Dup"
    /\ mem.side = "copy"
    /\ mem.n = 1
    /\ DOMAIN mem.snap.m # {}
    /\ \E k \in DOMAIN View(mem.heap, mem.copy).c :
          View(mem.heap, mem.copy).c[k] # mem.snap.c[k]

\* The keys of c whose candidate set is of the least size.
LeastKeys(c) ==
    { k \in DOMAIN c : \A j \in DOMAIN c : Cardinality(c[k]) <= Cardinality(c[j]) }

\* C24 as claimed: the key easiest returns for a branch has a candidate set
\* of the least size and, among the keys that have, is the first in key
\* order.
C24_Original ==
    (op = "step" /\ step.call = "Branch") =>
        /\ step.s \in LeastKeys(step.pre.c)
        /\ \A k \in LeastKeys(step.pre.c) : step.s <= k

\* C25 as claimed: when the recursive step for a successor pair has failed,
\* or the pair was skipped as visited, m is what it was before the pair was
\* tried.
C25_Original ==
    (op = "Match" /\ rec.i > 1 /\ ~rec.ok) => rec.m = rec.before

\* C26 as claimed: the goroutine solve that Solve starts sends one value on
\* out, no more, and has returned once it has sent it.
C26_Original ==
    op \in {"Solve", "SolveReturned"} =>
        /\ drv.i <= 1
        /\ drv.i = 1 => Root \notin DOMAIN drv.procs

\* C27 as claimed: on an equation of Candidates and SolveUnique on which
\* easiest succeeds, no goroutine brute comes to stand at a send on out,
\* which nothing receives from: each reaches wg.Done and wg.Wait completes.
C27_Original ==
    op = "SolveBrute" => \A p \in DOMAIN drv.procs : drv.procs[p].pc # "send"

\* C28 as claimed: every mapping either matcher returns maps the entry of
\* the subgraph to the host node asked for.
C28_Original ==
    /\ (op \in {"Isomorphism", "IsomorphismAgain", "GraphsIsomorphism"} /\ ret.ok) =>
          (sub.entry \in DOMAIN ret.m /\ ret.m[sub.entry] = entry)
    /\ (op = "GraphsIsomorphism" /\ old.ok) =>
          (sub.entry \in DOMAIN old.m /\ old.m[sub.entry] = entry)

\* The number of times name x stands in the list ns.
Count(ns, x) == Cardinality({ i \in 1 .. Len(ns) : ns[i] = x })

\* The number of entries of the list ns of subgraph names that m maps to x.
ImageCount(m, ns, x) == Cardinality({ i \in 1 .. Len(ns) : m[ns[i]] = x })

\* C29 as claimed: when IsValid accepts M, the predecessors of M(s) are the
\* images of the predecessors of s, entry for entry, for every s but the
\* subgraph entry, and the same for the successors of every s but the exit,
\* also when an adjacency list holds a name twice.
C29_Original ==
    (op = "IsValid" /\ ret.ok) =>
        \A s \in Nodes(sub) : \A x \in Names :
            /\ s # sub.entry =>
                  Count(Preds(graph, ret.m[s]), x) = ImageCount(ret.m, Preds(sub, s), x)
            /\ s # sub.exit =>
                  Count(Succs(graph, ret.m[s]), x) = ImageCount(ret.m, Succs(sub, s), x)

\* C30 as claimed: whenever IsValid accepts a mapping that sends the subgraph
\* entry to the entry name, Candidates on the same arguments returns an
\* equation, and its table holds the image of every subgraph node.
C30_Original ==
    op = "Candidates" =>
        \A M \in Mappings(graph, sub) :
            (M[sub.entry] = entry /\ IsValid(graph, sub, M)) =>
                /\ cand.err = "nil"
                /\ \A s \in Nodes(sub) : M[s] \in cand.eq.c[s]

\* C30 for subgraphs whose every node the entry reaches along successor
\* edges: whenever IsValid accepts a mapping that sends the subgraph entry to
\* the entry name, Candidates returns an equation and its table holds the
\* image of every subgraph node.
C30_Connected ==
    (op = "Candidates" /\ Connected(sub)) =>
        \A M \in Mappings(graph, sub) :
            (M[sub.entry] = entry /\ IsValid(graph, sub, M)) =>
                /\ cand.err = "nil"
                /\ \A s \in Nodes(sub) : M[s] \in cand.eq.c[s]

\* C30, witness: Candidates on a three-node subgraph that the entry reaches
\* and a host that is not the subgraph; the validator accepts a mapping from
\* the entry name, and the table holds besides its images a host node that
\* no accepted mapping uses.
C30_Witness ==
    /\ op = "Candidates"
    /\ Connected(sub)
    /\ sub.n = 3
    /\ graph.E # sub.E
    /\ cand.err = "nil"
    /\ \E M \in Mappings(graph, sub) : M[sub.entry] = entry /\ IsValid(graph, sub, M)
    /\ \E s \in Nodes(sub) : \E g \in cand.eq.c[s] :
          \A M \in Mappings(graph, sub) :
              (M[sub.entry] = entry /\ IsValid(graph, sub, M)) => M[s] # g

====
